---- MODULE Spec2Model ----
(***************************************************************************)
(* Verification model of the Chrome DevTools MCP server.                   *)
(*                                                                         *)
(* Several state machines share this module:                               *)
(*   SpecFetch   the Fetch.requestPaused handlers of the smart-workflow    *)
(*               tools (src/src/tools/smart-workflows.ts);                 *)
(*   SpecEngine  the response-interception and mock-endpoint modes as the  *)
(*               repository's troubleshooting guide and worked example     *)
(*               describe them;                                            *)
(*   Spec        the ChromeConnector and the call-tool dispatcher          *)
(*               (src/src/chrome-connector.ts, src/unnamed/part_003,       *)
(*               src/unnamed/part_001, the launcher tools).                *)
(*   SpecList    the same without a changing world, with the protocol      *)
(*               messages and the tool-visibility flag;                    *)
(*   SpecLaunch  the same with pages opened and closed by the user and     *)
(*               launchWithProfile called directly;                        *)
(*   SpecNavigate  a smart-workflow handler that navigates and waits for   *)
(*               Page.loadEventFired;                                      *)
(*   SpecOverlap   call-tool requests that arrive while another is at an   *)
(*               await;                                                    *)
(*   SpecTabClient, SpecPersistent  getTabClient and the persistent        *)
(*               clients over the browser's target list;                   *)
(*   SpecClients   the clients a tool call and close_browser leave open;   *)
(*   SpecWorkflow  one run of a tool that enables the Fetch domain;        *)
(*   SpecMatch     mock endpoints against modify and observe rules;        *)
(*   SpecHeaders   the header merge of the requestPaused callbacks;        *)
(*   SpecSession   manage_browser_session export and load;                 *)
(*   SpecLocks     the data directory and its lock files before a spawn;   *)
(*   SpecClick     the click tool and its wait for the selector;           *)
(*   SpecPcTable   get and close calls on the persistent-client table;     *)
(*   SpecJourney   simulate_user_journey's loop over its steps;            *)
(*   SpecTestCookies  test_with_different_cookies;                         *)
(*   SpecLoadWait  the order of the load-event wait and the command.       *)
(* Each specification leaves the variables of the others at rest.          *)
(***************************************************************************)
EXTENDS Integers, FiniteSets, Sequences, TLC

VARIABLES
  \* ---- Fetch.requestPaused handlers (smart-workflows.ts) ----
  fetchTool,        \* which tool installed the handler
  fetchEnabled,     \* Fetch domain enabled on the tool's client
  reqState,         \* browser side of each request id
  handlerPc,        \* position of the requestPaused callback for each request id
  issued,           \* terminal CDP calls issued per request id
  accepted,         \* terminal CDP calls the browser accepted per request id
  firstRejected,    \* the handler saw its first continueRequest reject
  modifiedRequests, \* request ids pushed to modifiedRequests / interceptedRequests
  \* ---- response interception mode (documented behaviour) ----
  interceptionOn,   \* enable_response_interception is active
  autoContinue,     \* the autoContinue argument of the active interception
  respState,        \* browser side of each intercepted response
  interceptedResponses, \* pending list returned by list_intercepted_responses
  interceptRules,   \* the patterns of the active response interception
  mockEndpoints,    \* the mock endpoints create_mock_endpoint registered
  engineClient,     \* the target's persistent client is open and in the table
  engineResult,     \* what the last interception tool call returned
  \* ---- environment of the connector ----
  variant,          \* which copy of the connector and launcher tools is built
  platform,         \* os.platform()
  port,             \* what answers on the debugging port
  targets,          \* number of targets /json/list reports on that port
  proc,             \* every process this server spawned
  exitEvents,       \* 'exit' events emitted whose listener has not run yet
  kills,            \* kill signals this server sent
  \* ---- ChromeConnector fields ----
  connection,
  chromeProcess,
  currentTabId,
  browserContext,
  persistentClients,
  stealthApplied,
  \* ---- index.ts ----
  serverUp,         \* FALSE after the SIGINT/SIGTERM handler called process.exit
  call,             \* the call-tool request in flight, or the last one finished
  advancedToolsEnabled, \* the tool-visibility flag
  listed,           \* the catalogues of the last tools/list result
  listChanged,      \* a tools/list_changed notification the client has not acted on
  messages,         \* kinds of protocol message received other than tools/call
  \* ---- a navigating smart-workflow handler (smart-workflows.ts) ----
  navTool,          \* the tool whose handler navigates
  navPc,            \* the await the handler is suspended at
  navTimeout,       \* the timeout argument, in clock ticks
  navSelector,      \* a waitForSelector argument was given
  loadFired,        \* Page.loadEventFired was delivered to the handler
  selectorTimer,    \* ticks left on the in-page setTimeout of the selector wait
  clock,            \* ticks since the call-tool request arrived
  navResult,        \* what the call returned
  \* ---- call-tool requests that overlap (index.ts, part_003) ----
  ovPort,           \* what answers on the debugging port
  ovCall,           \* each request in flight: its tool and the await it is at
  ovClients,        \* root CDP clients opened by connect() and still open
  ovConnection,     \* the client this.connection holds, 0 for null
  ovStarted,        \* call-tool requests received so far
  \* ---- targets and the clients opened on them (chrome-connector.ts) ----
  tTargets,         \* what CDP.List enumerates: <<[id, type], ...>>
  tCurrentTabId,    \* this.currentTabId, 0 for null
  tResult,          \* the last getTabClient call: its argument and its target
  tPersistent,      \* this.persistentClients: {[key, client]}, key 0 is 'default'
  tOpen,            \* persistent clients that are open: {[client, target]}
  tPending,         \* getPersistentClient calls suspended at an await
  \* ---- the clients a tool handler and close_browser leave (tools/*.ts) ----
  tToolCall,        \* the tool handler in flight and the tab client it holds
  tTabClients,      \* getTabClient clients that are open: {[client, target]}
  tOwned,           \* this.chromeProcess holds the handle of the browser
  tPaused,          \* requests the browser holds paused for an open client
  tKilled,          \* the browser process was sent SIGKILL
  \* ---- one run of a tool that enables Fetch (smart-workflows.ts) ----
  wfPc,             \* where the handler is: idle, action, wait, returned
  wfArgs,           \* the action argument and which of selector, url, text came
  wfResult,         \* the `success` of the object the handler returned
  \* ---- rule matching on a paused request (documented behaviour) ----
  ruleList,         \* the target's rules and mocks in declaration order
  mockCallCount,    \* callCount of the target's mocks, summed
  lastDispatch,     \* what was done with the last paused request
  \* ---- the header merge of a requestPaused callback (smart-workflows.ts) ----
  hTool,            \* the tool whose callback runs
  hOriginal,        \* params.request.headers
  hModifications,   \* the addHeaders and removeHeaders the caller gave
  hForwarded,       \* the headers of the Fetch.continueRequest issued
  \* ---- manage_browser_session (smart-workflows.ts) ----
  sSource,          \* the page the session is exported from
  sSessionData,     \* the sessionData an export returned
  sTarget,          \* the page of the fresh profile the session is loaded into
  sLoaded,          \* the load call that returned, with its include flags
  \* ---- the singleton lock files of the data directories (part_003) ----
  lkLocks,          \* the lock files present in each data directory
  lkSpawn,          \* the spawn launchWithProfile made, and the locks it met
  \* ---- the click tool (interaction.ts) ----
  ckCall,           \* the click call: its position, waitForSelector, failed polls
  ckPresent,        \* document.querySelector(selector) !== null, now
  ckObserved,       \* the call's wait saw the selector present
  ckClicks,         \* el.click() calls the current call made in the page
  ckResult,         \* what the call returned
  \* ---- calls on the persistent-client table, one at a time ----
  pcLast,           \* the last get or close call on the table and what it did
  \* ---- simulate_user_journey (smart-workflows.ts) ----
  jArgs,            \* steps, stopOnError, captureScreenshots of the call
  jPc,              \* "idle", "loop" (inside the for), "returned"
  jI,               \* the loop index, counted from 1
  jExecuted,        \* the steps whose commands were sent, in the order sent
  jResults,         \* the results array
  \* ---- test_with_different_cookies (smart-workflows.ts) ----
  tcArgs,           \* cookies and restoreOriginal of the call
  tcPc,             \* "idle", "set", "navigate", "restore", "returned"
  tcI,              \* index of the next test cookie to set
  tcJar,            \* the browser's cookies
  tcOriginal,       \* originalCookies
  tcBefore,         \* the browser's cookies when the call arrived
  tcResult,         \* success of the returned object
  \* ---- a handler that waits for the load event ----
  leCall,           \* the tool (and waitUntil) of the call, and its position
  leSubscribed,     \* the handler's wait for the event is registered
  leTriggered,      \* the command that starts the load was sent
  leEvent,          \* the browser's event: "none", "seen" by the wait, "lost"
  leResult,         \* what the call returned
  \* ---- observation ----
  recording         \* the state a call-tool request arrived in is kept with the call

fetchVars == <<fetchTool, fetchEnabled, reqState, handlerPc, issued, accepted,
               firstRejected, modifiedRequests>>
modeVars == <<interceptRules, mockEndpoints, engineClient, engineResult>>
engineVars == <<interceptionOn, autoContinue, respState, interceptedResponses, modeVars>>

envVars == <<variant, platform, port, targets, proc, exitEvents, kills>>
connectorVars == <<connection, chromeProcess, currentTabId, browserContext,
                   persistentClients, stealthApplied>>
serverVars == <<serverUp, call>>
connVars == <<envVars, connectorVars, serverVars>>
listVars == <<advancedToolsEnabled, listed, listChanged, messages>>

navVars == <<navTool, navPc, navTimeout, navSelector, loadFired,
             selectorTimer, clock, navResult>>
ovVars == <<ovPort, ovCall, ovClients, ovConnection, ovStarted>>
tabEnvVars == <<tTargets, tCurrentTabId>>
tabClientVars == <<tResult>>
persistentVars == <<tPersistent, tOpen, tPending>>
tabVars == <<tabEnvVars, tabClientVars, persistentVars>>
toolClientVars == <<tToolCall, tTabClients, tOwned, tPaused, tKilled>>
workflowVars == <<wfPc, wfArgs, wfResult>>
matchVars == <<ruleList, mockCallCount, lastDispatch>>
headerVars == <<hTool, hOriginal, hModifications, hForwarded>>
sessionVars == <<sSource, sSessionData, sTarget, sLoaded>>
lockVars == <<lkLocks, lkSpawn>>
clickVars == <<ckCall, ckPresent, ckObserved, ckClicks, ckResult>>
laterVars == <<toolClientVars, workflowVars, matchVars, headerVars, sessionVars,
               lockVars>>
pcVars == <<pcLast>>
journeyVars == <<jArgs, jPc, jI, jExecuted, jResults>>
testCookieVars == <<tcArgs, tcPc, tcI, tcJar, tcOriginal, tcBefore, tcResult>>
loadWaitVars == <<leCall, leSubscribed, leTriggered, leEvent, leResult>>
lastVars == <<clickVars, pcVars, journeyVars, testCookieVars, loadWaitVars>>
auxVars == <<navVars, ovVars, tabVars, toolClientVars, workflowVars, matchVars,
             headerVars, sessionVars, lockVars, lastVars, recording>>

\* what each part leaves alone
nonFetchVars == <<engineVars, connVars, listVars, auxVars>>
nonEngineVars == <<fetchVars, connVars, listVars, auxVars>>
nonConnVars == <<fetchVars, engineVars, listVars, auxVars>>
nonListVars == <<fetchVars, engineVars, auxVars>>
nonNavVars == <<fetchVars, engineVars, connVars, listVars, ovVars, tabVars,
                toolClientVars, workflowVars, matchVars, headerVars,
                sessionVars, lockVars, lastVars, recording>>
nonOvVars == <<fetchVars, engineVars, connVars, listVars, navVars, tabVars,
               toolClientVars, workflowVars, matchVars, headerVars,
                sessionVars, lockVars, lastVars, recording>>
nonTabVars == <<fetchVars, engineVars, connVars, listVars, navVars, ovVars,
                toolClientVars, workflowVars, matchVars, headerVars,
                sessionVars, lockVars, lastVars, recording>>
nonClientVars == <<fetchVars, engineVars, connVars, listVars, navVars, ovVars,
                   tabClientVars, workflowVars, matchVars, headerVars,
                   sessionVars, lockVars, lastVars, recording>>
nonWorkflowVars == <<engineVars, connVars, listVars, navVars, ovVars, tabVars,
                     toolClientVars, matchVars, headerVars, sessionVars, lockVars,
                     lastVars, recording>>
nonMatchVars == <<fetchVars, engineVars, connVars, listVars, navVars, ovVars, tabVars,
                  toolClientVars, workflowVars, headerVars, sessionVars, lockVars,
                  lastVars, recording>>
nonHeaderVars == <<fetchVars, engineVars, connVars, listVars, navVars, ovVars, tabVars,
                   toolClientVars, workflowVars, matchVars, sessionVars, lockVars,
                   lastVars, recording>>
nonSessionVars == <<fetchVars, engineVars, connVars, listVars, navVars, ovVars, tabVars,
                    toolClientVars, workflowVars, matchVars, headerVars, lockVars,
                    lastVars, recording>>
nonLockVars == <<fetchVars, engineVars, connVars, listVars, navVars, ovVars, tabVars,
                 toolClientVars, workflowVars, matchVars, headerVars, sessionVars,
                 lastVars, recording>>
nonClickVars == <<fetchVars, engineVars, connVars, listVars, navVars, ovVars, tabVars,
                  laterVars, pcVars, journeyVars, testCookieVars, loadWaitVars,
                  recording>>
\* what a logged call on the persistent-client table leaves alone, the
\* table and the log apart
nonPcVars == <<fetchVars, engineVars, connVars, listVars, navVars, ovVars, laterVars,
               clickVars, journeyVars, testCookieVars, loadWaitVars, recording>>
nonJourneyVars == <<fetchVars, engineVars, connVars, listVars, navVars, ovVars, tabVars,
                    laterVars, clickVars, pcVars, testCookieVars, loadWaitVars,
                    recording>>
nonTestCookieVars == <<fetchVars, engineVars, connVars, listVars, navVars, ovVars,
                       tabVars, laterVars, clickVars, pcVars, journeyVars,
                       loadWaitVars, recording>>
nonLoadWaitVars == <<fetchVars, engineVars, connVars, listVars, navVars, ovVars,
                     tabVars, laterVars, clickVars, pcVars, journeyVars,
                     testCookieVars, recording>>

-----------------------------------------------------------------------------
(* Bounds *)

\* request ids the browser may pause while one tool run has Fetch enabled
MaxRequests == 2

RequestIds == 1..MaxRequests

\* responses the browser may pause while response interception is enabled
MaxResponses == 3

ResponseIds == 1..MaxResponses

\* mock endpoints a caller may register
MaxMocks == 2

MockIds == 1..MaxMocks

\* rules and mocks declared on one target
MaxRules == 3

\* header names a request or a modification may carry
MaxHeaders == 3

\* keys a storage may hold, and cookies a page may have
MaxKeys == 2
MaxCookies == 2
\* the longest timeout of the click tool, in polls of the selector
MaxPolls == 3
\* steps of one simulate_user_journey call
MaxSteps == 3

\* processes the server may spawn in one run
MaxProcs == 2

Pids == 1..MaxProcs

\* targets the browser on the port may report
MaxTargets == 1

\* connect() attempts the post-spawn retry loop makes in the model
\* (the loops in the source make 8 and 10)
MaxConnectTries == 2

\* call-tool requests a client sends without waiting for the answers
MaxOverlap == 2

\* call-tool requests received in one run of the overlap model
MaxCalls == 3

\* targets the browser has at one time
MaxTabs == 2

\* persistent clients open at one time
MaxClients == 2

\* clock ticks counted while a navigating call is pending
MaxClock == 3

\* largest timeout argument of navigate_and_extract_content, in clock ticks
MaxTimeout == 2

-----------------------------------------------------------------------------
(***************************************************************************)
(* Part 1.  Fetch.requestPaused handlers of add_custom_header_to_request,  *)
(* intercept_and_modify_traffic and capture_network_on_action.             *)
(***************************************************************************)

SmartTools == {"add_custom_header_to_request", "intercept_and_modify_traffic",
               "capture_network_on_action"}

\* Outcome of one Fetch.continueRequest as the handler and the browser see it:
\*   "ok"        the browser applied it and the reply resolved the promise
\*   "rejected"  the browser refused it (bad header/method, or the request id is
\*               no longer paused); the promise rejects
\*   "lost"      the browser applied it but the reply never resolved (channel
\*               closed in between); the promise rejects
ContinueOutcomes(state) ==
  IF state = "paused" THEN {"ok", "rejected", "lost"} ELSE {"rejected"}

BrowserApplies(outcome) == outcome \in {"ok", "lost"}

\* A tool whose handler has a catch block that issues a second, unmodified
\* continueRequest (lines 60-62 and 204-207); capture_network_on_action only
\* swallows the rejection (line 291).
HasFallback(tool) ==
  tool \in {"add_custom_header_to_request", "intercept_and_modify_traffic"}

\* Mutant: the fallback runs as a finally block, after a successful call too.
HandlerAfterFirstAlways(tool, outcome) ==
  IF HasFallback(tool) THEN "fallback" ELSE "done"

\* Where the callback goes after its first continueRequest settled.
HandlerAfterFirst(tool, outcome) ==
  IF outcome = "ok" THEN "done"
  ELSE IF HasFallback(tool) THEN "fallback" ELSE "done"
\* The two copies of the connector in the sources.
CC == "chrome-connector.ts"
P3 == "part_003"
Variants == {CC, P3}

\* No tool call in progress and none finished yet.
\* No record of the state a call started in: one is kept, while recording,
\* from the arrival of a call-tool request until its arguments have been
\* looked at.
NoSnap == [taken |-> FALSE]

NoCall ==
  [tool |-> "none", pc |-> "idle", ret |-> "none", lwRet |-> "none",
   force |-> FALSE, tries |-> 0, pid |-> 0, ctx |-> "none",
   coldLaunch |-> FALSE, reached |-> FALSE, result |-> "none",
   snap |-> NoSnap]

\* The connector, the dispatcher and the world around them at rest, for the
\* specifications that are not about them.
ConnAtRest ==
  /\ variant = CC
  /\ platform = "posix"
  /\ port = "free"
  /\ targets = 0
  /\ proc = [p \in Pids |-> [st |-> "unused", by |-> "none", tracked |-> FALSE]]
  /\ exitEvents = {}
  /\ kills = {}
  /\ connection = "null"
  /\ chromeProcess = 0
  /\ currentTabId = 0
  /\ browserContext = FALSE
  /\ persistentClients = {}
  /\ stealthApplied = FALSE
  /\ serverUp = FALSE
  /\ call = NoCall

\* No navigating handler is running.
NavAtRest ==
  /\ navTool = "none"
  /\ navPc = "idle"
  /\ navTimeout = 0
  /\ navSelector = FALSE
  /\ loadFired = FALSE
  /\ selectorTimer = 0
  /\ clock = 0
  /\ navResult = "none"

\* let advancedToolsEnabled = false; nothing listed, no message received.
ListAtRest ==
  /\ advancedToolsEnabled = FALSE
  /\ listed = {}
  /\ listChanged = FALSE
  /\ messages = {}

Slots == 1..MaxOverlap

\* No request in flight, nothing opened.
OvAtRest ==
  /\ ovPort = "free"
  /\ ovCall = [i \in Slots |-> [tool |-> "none", pc |-> "idle", ret |-> "none"]]
  /\ ovClients = {}
  /\ ovConnection = 0
  /\ ovStarted = 0

TabIds == 1..MaxTabs
ClientIds == 1..MaxClients
NoPending == [pc |-> "idle", key |-> 0, target |-> 0]

\* No getTabClient call made yet.
TabClientAtRest == tResult = [called |-> FALSE, tabId |-> 0, target |-> 0]

\* private persistentClients = new Map(); no call in flight.
PersistentAtRest ==
  /\ tPersistent = {}
  /\ tOpen = {}
  /\ tPending = [i \in Slots |-> NoPending]

\* No target, no current tab, no client.
TabsAtRest ==
  /\ tTargets = <<>>
  /\ tCurrentTabId = 0
  /\ TabClientAtRest
  /\ PersistentAtRest

\* No tool handler in flight, no tab client, no process handle.
NoToolCall == [pc |-> "idle", client |-> 0]

ToolClientsAtRest ==
  /\ tToolCall = NoToolCall
  /\ tTabClients = {}
  /\ tOwned = FALSE
  /\ tPaused = 0
  /\ tKilled = FALSE

\* No Fetch-enabling tool was called.
NoArgs == [action |-> "none", selector |-> FALSE, url |-> FALSE, text |-> FALSE]

WorkflowAtRest ==
  /\ wfPc = "idle"
  /\ wfArgs = NoArgs
  /\ wfResult = "none"

\* No rule, no mock, no request seen.
NoDispatch == [action |-> "none", forwarded |-> FALSE, modified |-> FALSE]

MatchAtRest ==
  /\ ruleList = <<>>
  /\ mockCallCount = 0
  /\ lastDispatch = NoDispatch

\* No request was paused for a header-modifying callback.
HeadersAtRest ==
  /\ hTool = "none"
  /\ hOriginal = <<>>
  /\ hModifications = [addHeaders |-> <<>>, removeHeaders |-> {}]
  /\ hForwarded = [sent |-> FALSE, headers |-> {}]

\* A page with no cookie and empty storages; no `const` declared in it.
EmptyPage ==
  [cookies |-> {}, localStorage |-> <<>>, sessionStorage |-> <<>>, declared |-> {}]

NoSessionData ==
  [exported |-> FALSE, cookies |-> {},
   localStorage |-> [present |-> FALSE, items |-> <<>>],
   sessionStorage |-> [present |-> FALSE, items |-> <<>>]]

NoLoad == [done |-> FALSE, includeLocalStorage |-> FALSE, includeSessionStorage |-> FALSE]

SessionAtRest ==
  /\ sSource = EmptyPage
  /\ sSessionData = NoSessionData
  /\ sTarget = EmptyPage
  /\ sLoaded = NoLoad

\* No lock file anywhere, nothing spawned.
NoSpawn == [done |-> FALSE, dataDir |-> "none", locks |-> {}, arg |-> "none",
            options |-> [userDataDir |-> FALSE, profileDirectory |-> "Default"]]

LocksAtRest ==
  /\ lkLocks = [d \in {"shadow", "given"} |-> {}]
  /\ lkSpawn = NoSpawn

\* The parts that have a specification of their own and are at rest in the
\* other specifications.
LaterPartsAtRest ==
  /\ ToolClientsAtRest /\ WorkflowAtRest /\ MatchAtRest /\ HeadersAtRest
  /\ SessionAtRest
  /\ LocksAtRest

\* No click call.
NoClick == [pc |-> "idle", waitForSelector |-> FALSE, timeout |-> 1, polls |-> 0]

ClickAtRest ==
  /\ ckCall = NoClick
  /\ ckPresent = FALSE
  /\ ckObserved = FALSE
  /\ ckClicks = 0
  /\ ckResult = "none"

\* No call on the persistent-client table logged.
NoPcCall == [op |-> "none", key |-> 0, had |-> FALSE, client |-> 0,
             opened |-> FALSE, threw |-> FALSE, hasAfter |-> FALSE,
             same |-> TRUE]

PcLogAtRest == pcLast = NoPcCall

\* No simulate_user_journey call.
NoJourney == [steps |-> <<>>, stopOnError |-> TRUE, captureScreenshots |-> FALSE]

JourneyAtRest ==
  /\ jArgs = NoJourney
  /\ jPc = "idle"
  /\ jI = 1
  /\ jExecuted = <<>>
  /\ jResults = <<>>

\* A browser without cookies and no test_with_different_cookies call.
TestCookiesAtRest ==
  /\ tcArgs = [cookies |-> <<>>, restoreOriginal |-> TRUE]
  /\ tcPc = "idle"
  /\ tcI = 1
  /\ tcJar = <<>>
  /\ tcOriginal = <<>>
  /\ tcBefore = <<>>
  /\ tcResult = "none"

\* No call that waits for a load event.
NoLoadCall == [tool |-> "none", waitUntil |-> "load", pc |-> "idle", timer |-> 0]

LoadWaitAtRest ==
  /\ leCall = NoLoadCall
  /\ leSubscribed = FALSE
  /\ leTriggered = FALSE
  /\ leEvent = "none"
  /\ leResult = "none"

\* The tools that have a specification of their own, at rest.
LastPartsAtRest ==
  /\ ClickAtRest
  /\ PcLogAtRest
  /\ JourneyAtRest
  /\ TestCookiesAtRest
  /\ LoadWaitAtRest

\* The parts below the dispatcher that have a specification of their own.
AuxAtRest ==
  /\ NavAtRest /\ OvAtRest /\ TabsAtRest /\ LaterPartsAtRest /\ LastPartsAtRest
  /\ recording = FALSE

FetchAtRest ==
  /\ fetchTool = "add_custom_header_to_request"
  /\ fetchEnabled = FALSE
  /\ reqState = [r \in RequestIds |-> "none"]
  /\ handlerPc = [r \in RequestIds |-> "idle"]
  /\ issued = [r \in RequestIds |-> 0]
  /\ accepted = [r \in RequestIds |-> 0]
  /\ firstRejected = [r \in RequestIds |-> FALSE]
  /\ modifiedRequests = {}

EngineAtRest ==
  /\ interceptionOn = FALSE
  /\ autoContinue = FALSE
  /\ respState = [r \in ResponseIds |-> "none"]
  /\ interceptedResponses = {}
  /\ interceptRules = {}
  /\ mockEndpoints = {}
  /\ engineClient = FALSE
  /\ engineResult = "none"

\* The tool has enabled Fetch and installed its callback; nothing is paused yet.
InitFetch ==
  /\ EngineAtRest
  /\ ConnAtRest
  /\ ListAtRest
  /\ AuxAtRest
  /\ fetchTool \in SmartTools
  /\ fetchEnabled = TRUE
  /\ reqState = [r \in RequestIds |-> "none"]
  /\ handlerPc = [r \in RequestIds |-> "idle"]
  /\ issued = [r \in RequestIds |-> 0]
  /\ accepted = [r \in RequestIds |-> 0]
  /\ firstRejected = [r \in RequestIds |-> FALSE]
  /\ modifiedRequests = {}

\* The browser pauses a request matching the pattern and delivers
\* Fetch.requestPaused to the callback.
RequestPaused(r) ==
  /\ fetchEnabled
  /\ reqState[r] = "none"
  /\ reqState' = [reqState EXCEPT ![r] = "paused"]
  /\ handlerPc' = [handlerPc EXCEPT ![r] = "first"]
  /\ UNCHANGED <<fetchTool, fetchEnabled, issued, accepted, firstRejected,
                 modifiedRequests>>
  /\ UNCHANGED nonFetchVars

\* The page drops a paused request (navigation, abort): its id is no longer valid.
RequestCancelled(r) ==
  /\ reqState[r] = "paused"
  /\ reqState' = [reqState EXCEPT ![r] = "gone"]
  /\ UNCHANGED <<fetchTool, fetchEnabled, handlerPc, issued, accepted,
                 firstRejected, modifiedRequests>>
  /\ UNCHANGED nonFetchVars

\* The try block: build the headers and issue Fetch.continueRequest.
\* capture_network_on_action pushes the params before the call, the other two
\* push to modifiedRequests after the call resolved.
HandlerFirstCall(r) ==
  /\ handlerPc[r] = "first"
  /\ \E outcome \in ContinueOutcomes(reqState[r]) :
       /\ issued' = [issued EXCEPT ![r] = @ + 1]
       /\ accepted' = [accepted EXCEPT ![r] = IF BrowserApplies(outcome) THEN @ + 1 ELSE @]
       /\ reqState' = [reqState EXCEPT ![r] = IF BrowserApplies(outcome) THEN "resumed" ELSE @]
       /\ firstRejected' = [firstRejected EXCEPT ![r] = (outcome # "ok")]
       /\ modifiedRequests' =
            IF outcome = "ok" \/ ~HasFallback(fetchTool)
            THEN modifiedRequests \cup {r} ELSE modifiedRequests
       /\ handlerPc' = [handlerPc EXCEPT ![r] = HandlerAfterFirst(fetchTool, outcome)]
  /\ UNCHANGED <<fetchTool, fetchEnabled>>
  /\ UNCHANGED nonFetchVars

\* The catch block: Fetch.continueRequest({requestId}).catch(() => {}).
HandlerFallback(r) ==
  /\ handlerPc[r] = "fallback"
  /\ \E outcome \in ContinueOutcomes(reqState[r]) :
       /\ issued' = [issued EXCEPT ![r] = @ + 1]
       /\ accepted' = [accepted EXCEPT ![r] = IF BrowserApplies(outcome) THEN @ + 1 ELSE @]
       /\ reqState' = [reqState EXCEPT ![r] = IF BrowserApplies(outcome) THEN "resumed" ELSE @]
  /\ handlerPc' = [handlerPc EXCEPT ![r] = "done"]
  /\ UNCHANGED <<fetchTool, fetchEnabled, firstRejected, modifiedRequests>>
  /\ UNCHANGED nonFetchVars

\* Step 4 of the tool: Fetch.disable().  The browser releases what is still paused.
FetchDisable ==
  /\ fetchEnabled
  /\ fetchEnabled' = FALSE
  /\ reqState' = [r \in RequestIds |-> IF reqState[r] = "paused" THEN "gone" ELSE reqState[r]]
  /\ UNCHANGED <<fetchTool, handlerPc, issued, accepted, firstRejected, modifiedRequests>>
  /\ UNCHANGED nonFetchVars

NextFetch ==
  \/ \E r \in RequestIds : RequestPaused(r)
  \/ \E r \in RequestIds : RequestCancelled(r)
  \/ \E r \in RequestIds : HandlerFirstCall(r)
  \/ \E r \in RequestIds : HandlerFallback(r)
  \/ FetchDisable

-----------------------------------------------------------------------------
(***************************************************************************)
(* Part 2.  Response interception (enable_response_interception,           *)
(* list_intercepted_responses, modify_intercepted_response,                *)
(* disable_response_interception) as the troubleshooting guide and the     *)
(* worked example describe it: with autoContinue every paused response is  *)
(* continued by the tool's own event handler; without it every response    *)
(* stays paused until the caller processes it.                             *)
(***************************************************************************)

\* No interception is enabled when the server starts.
InitEngine ==
  /\ FetchAtRest
  /\ ConnAtRest
  /\ ListAtRest
  /\ AuxAtRest
  /\ interceptionOn = FALSE
  /\ autoContinue = FALSE
  /\ respState = [r \in ResponseIds |-> "none"]
  /\ interceptedResponses = {}
  /\ interceptRules = {}
  /\ mockEndpoints = {}
  /\ engineClient = FALSE
  /\ engineResult = "none"

\* Mutant: enable_response_interception without the mode check.
ModeConflictIgnored(active) == FALSE

\* "No puedes usar create_mock_endpoint y enable_response_interception
\* simultaneamente": a mode is refused while the other one is active.
ModeConflict(active) == active

\* enable_response_interception {patterns, autoContinue}: refused with
\* 'Conflict detected' while mock endpoints are registered; otherwise the
\* patterns become the rules of the target and its persistent client is opened.
EnableResponseInterception(ac) ==
  /\ ~interceptionOn
  /\ IF ModeConflict(mockEndpoints # {})
     THEN /\ engineResult' = "interception-mode-conflict"
          /\ UNCHANGED <<interceptionOn, autoContinue, interceptRules, engineClient>>
     ELSE /\ interceptionOn' = TRUE
          /\ autoContinue' = ac
          /\ interceptRules' = {"*"}
          /\ engineClient' = TRUE
          /\ engineResult' = "enabled"
  /\ UNCHANGED <<respState, interceptedResponses, mockEndpoints>>
  /\ UNCHANGED nonEngineVars

\* create_mock_endpoint {urlPattern, responseBody, ...}: refused with
\* 'Conflict detected: Response interception is already active'; otherwise
\* the mock is registered on the target's persistent client.
CreateMockEndpoint(m) ==
  /\ m \notin mockEndpoints
  /\ IF ModeConflict(interceptionOn)
     THEN /\ engineResult' = "interception-mode-conflict"
          /\ UNCHANGED <<mockEndpoints, engineClient>>
     ELSE /\ mockEndpoints' = mockEndpoints \cup {m}
          /\ engineClient' = TRUE
          /\ engineResult' = "mock-created"
  /\ UNCHANGED <<interceptionOn, autoContinue, respState, interceptedResponses,
                 interceptRules>>
  /\ UNCHANGED nonEngineVars

\* clear_all_mocks: every mock is dropped and the mode is left.
ClearAllMocks ==
  /\ mockEndpoints # {}
  /\ mockEndpoints' = {}
  /\ engineClient' = FALSE
  /\ engineResult' = "mocks-cleared"
  /\ UNCHANGED <<interceptionOn, autoContinue, respState, interceptedResponses,
                 interceptRules>>
  /\ UNCHANGED nonEngineVars

\* The browser pauses a response and the tool records it.
ResponsePaused(r) ==
  /\ interceptionOn
  /\ respState[r] = "none"
  /\ respState' = [respState EXCEPT ![r] = "paused"]
  /\ interceptedResponses' = interceptedResponses \cup {r}
  /\ UNCHANGED <<interceptionOn, autoContinue, modeVars>>
  /\ UNCHANGED nonEngineVars

\* autoContinue: true - the tool's handler continues the response by itself.
AutoContinueResponse(r) ==
  /\ interceptionOn /\ autoContinue
  /\ respState[r] = "paused"
  /\ respState' = [respState EXCEPT ![r] = "resumed"]
  /\ interceptedResponses' = interceptedResponses \ {r}
  /\ UNCHANGED <<interceptionOn, autoContinue, modeVars>>
  /\ UNCHANGED nonEngineVars

\* The caller processes one listed response: modify_intercepted_response
\* {requestId} (no modification = continue with the original response).
ModifyInterceptedResponse(r, modified) ==
  /\ interceptionOn
  /\ r \in interceptedResponses
  /\ respState[r] = "paused"
  /\ respState' = [respState EXCEPT ![r] = IF modified THEN "modified" ELSE "resumed"]
  /\ interceptedResponses' = interceptedResponses \ {r}
  /\ UNCHANGED <<interceptionOn, autoContinue, modeVars>>
  /\ UNCHANGED nonEngineVars

\* Mutant: disable_response_interception that only drops the flag.
DisableFlagOnly ==
  /\ interceptionOn
  /\ interceptionOn' = FALSE
  /\ engineResult' = "disabled"
  /\ UNCHANGED <<autoContinue, respState, interceptedResponses, interceptRules,
                 mockEndpoints, engineClient>>
  /\ UNCHANGED nonEngineVars

\* disable_response_interception: Fetch is disabled, the browser releases
\* whatever is still paused, the pending list and the rules are dropped and
\* the target's persistent client is closed and removed.
DisableResponseInterception ==
  /\ interceptionOn
  /\ interceptionOn' = FALSE
  /\ respState' = [r \in ResponseIds |-> IF respState[r] = "paused" THEN "resumed" ELSE respState[r]]
  /\ interceptedResponses' = {}
  /\ interceptRules' = {}
  /\ engineClient' = FALSE
  /\ engineResult' = "disabled"
  /\ UNCHANGED <<autoContinue, mockEndpoints>>
  /\ UNCHANGED nonEngineVars

NextEngine ==
  \/ \E ac \in BOOLEAN : EnableResponseInterception(ac)
  \/ \E r \in ResponseIds : ResponsePaused(r)
  \/ \E r \in ResponseIds : AutoContinueResponse(r)
  \/ \E r \in ResponseIds, modified \in BOOLEAN : ModifyInterceptedResponse(r, modified)
  \/ DisableResponseInterception
  \/ \E m \in MockIds : CreateMockEndpoint(m)
  \/ ClearAllMocks

-----------------------------------------------------------------------------
(***************************************************************************)
(* Part 3.  ChromeConnector and the call-tool dispatcher.                  *)
(*                                                                         *)
(* The sources hold two copies of the connector with their launcher tools: *)
(*   CC  src/src/chrome-connector.ts + src/src/tools/playwright-launcher.ts*)
(*       (ensureConnected launches, close_browser calls killChrome, the    *)
(*       exit listener re-probes the port);                                *)
(*   P3  src/unnamed/part_003 lines 40-1265 + src/unnamed/part_002         *)
(*       (ensureConnected refuses to launch, isRealBrowserOnPort, force,   *)
(*       the exit listener always cleans up, close_browser disconnects).   *)
(* The copy in use is fixed when the server starts.  Every step of an      *)
(* async function up to its next await is one action, so 'exit' listeners  *)
(* and the world outside interleave with a call at its await points.       *)
(***************************************************************************)

\* The tools of the model.  The launch tool is launch_chrome_with_profile in
\* part_002 and launch_edge_with_profile in playwright-launcher.ts.
LaunchTool(v) == IF v = P3 THEN "launch_chrome_with_profile" ELSE "launch_edge_with_profile"

controlTools == {"show_advanced_tools", "hide_advanced_tools"}

coreTools(v) == {LaunchTool(v), "close_browser", "get_browser_status", "manage_tabs"}

advancedTools == {"enable_response_interception"}

allToolsMap(v) == coreTools(v) \cup controlTools \cup advancedTools

\* Names a caller may send: every tool of the table and one that is not in it.
\* The two control tools are called by clients that have listed the tools.
ToolNames(v) ==
  (allToolsMap(v) \ controlTools) \cup {"no_such_tool"}
    \cup (IF listed # {} THEN controlTools ELSE {})
AllToolNames == UNION {allToolsMap(v) : v \in Variants} \cup {"no_such_tool"}

\* The allow-list with close_browser left out of it.
noConnectionNeededWithoutClose ==
  {"show_advanced_tools", "hide_advanced_tools", "get_browser_status"}

\* Lines 299-304 of index.ts: the tools the dispatcher runs without
\* ensureConnected.
noConnectionNeeded ==
  {"show_advanced_tools", "hide_advanced_tools", "get_browser_status", "close_browser"}

\* The connector's fields as one record, so that its methods compose.
Conn ==
  [connection |-> connection, chromeProcess |-> chromeProcess,
   currentTabId |-> currentTabId, browserContext |-> browserContext,
   persistentClients |-> persistentClients, stealthApplied |-> stealthApplied]

\* What the caller of a tool can observe of the server before the call: the
\* connector's fields and the tool-visibility flag.
Snap == [taken |-> TRUE, conn |-> Conn, advanced |-> advancedToolsEnabled]

SetConn(k) ==
  /\ connection' = k.connection
  /\ chromeProcess' = k.chromeProcess
  /\ currentTabId' = k.currentTabId
  /\ browserContext' = k.browserContext
  /\ persistentClients' = k.persistentClients
  /\ stealthApplied' = k.stealthApplied

\* CDP.List({port}) resolves when anything serves /json/list on the port.
ListAnswers(pt) == pt # "free"

\* isRealBrowserOnPort: /json/version has a non-empty Browser field that is
\* not a WebView.
isRealBrowserOnPort(pt) == pt = "browser"

\* connect(): CDP({port}) picks a target from /json/list and opens its socket;
\* with no target it rejects.  A look-alike may or may not accept the socket.
ConnectOutcomes(pt, tg) ==
  IF tg = 0 THEN {"fail"}
  ELSE IF pt = "browser" THEN {"browser"}
  ELSE IF pt = "webview" THEN {"webview", "fail"}
  ELSE {"fail"}

\* handleProcessDeath: chrome-connector.ts clears the persistent-client table,
\* part_003 resets stealthApplied and leaves the table.
handleProcessDeath(k) ==
  [k EXCEPT !.connection = "null", !.browserContext = FALSE, !.chromeProcess = 0,
            !.currentTabId = 0, !.stealthApplied = FALSE,
            !.persistentClients = IF variant = CC THEN {} ELSE @]

\* Mutant: disconnect() with its commented-out this.chromeProcess.kill() restored.
KillsOnDisconnectRestored(k) ==
  IF k.chromeProcess # 0 THEN {[pid |-> k.chromeProcess, by |-> "disconnect"]} ELSE {}

\* Kill signals disconnect() sends: none ("usually we just disconnect").
KillsOnDisconnect(k) == {}

\* disconnect(): close the client, close the Playwright context, drop the handle.
disconnect(k) ==
  [k EXCEPT !.connection = "null", !.browserContext = FALSE, !.chromeProcess = 0]

\* killChrome() (chrome-connector.ts only).
killChrome(k) ==
  [k EXCEPT !.connection = "null", !.browserContext = FALSE, !.chromeProcess = 0,
            !.currentTabId = 0, !.persistentClients = {}]

KillsOnKillChrome(k) ==
  IF k.chromeProcess # 0 THEN {[pid |-> k.chromeProcess, by |-> "killChrome"]} ELSE {}

\* A signal reaches only a process that is still running; it exits and its
\* 'exit' event is emitted when it had listeners.
ProcAfterKills(ks) ==
  [p \in Pids |->
     IF (\E x \in ks : x.pid = p) /\ proc[p].st = "alive"
     THEN [proc[p] EXCEPT !.st = "exited"] ELSE proc[p]]

ExitEventsAfterKills(ks) ==
  exitEvents \cup {p \in Pids : (\E x \in ks : x.pid = p) /\ proc[p].st = "alive"
                                 /\ proc[p].tracked}

Alive == {p \in Pids : proc[p].st = "alive"}
Unused == {p \in Pids : proc[p].st = "unused"}
NewPid == CHOOSE p \in Unused : \A q \in Unused : p <= q

\* applyStealthMode(): no-op when already applied; getTabClient and the
\* script registration may fail (non-fatal), then the flag stays.
\* chromium.connectOverCDP assigns browserContext only when it succeeds.
PlaywrightOutcomes(k) == IF ListAnswers(port) THEN {TRUE, k.browserContext} ELSE {k.browserContext}

StealthOutcomes(k) ==
  IF variant = CC THEN {k.stealthApplied}
  ELSE IF k.stealthApplied THEN {TRUE}
  ELSE IF ListAnswers(port) /\ targets > 0 THEN {TRUE, FALSE} ELSE {FALSE}

\* A call that ends: the transient fields go back to rest.
Finish(c, res) ==
  [c EXCEPT !.pc = "idle", !.result = res, !.ret = "none", !.lwRet = "none",
            !.force = FALSE, !.tries = 0, !.pid = 0, !.ctx = "none",
            !.snap = NoSnap]

\* ensureConnected returned / threw.  Called by the dispatcher (index.ts line
\* 307) its failure becomes the structured error with a hint; called through
\* verifyConnection inside a handler its failure is caught by the dispatcher.
EcReturn(c, ok) ==
  IF c.ret = "dispatcher"
  THEN IF ok THEN [c EXCEPT !.pc = "validate"] ELSE Finish(c, "hint_error")
  ELSE IF ok THEN [c EXCEPT !.pc = "body"] ELSE Finish(c, "error")

\* launchWithProfile returned / threw, to the launch handler (which turns a
\* throw into {success:false, error}) or to ensureConnected (CC).
LwReturn(c, ok) ==
  IF c.lwRet = "handler"
  THEN Finish(c, IF ok THEN "ok" ELSE "fail")
  ELSE IF ok THEN [c EXCEPT !.pc = "ec_settle"] ELSE EcReturn(c, FALSE)

\* new ChromeConnector(PORT); the server is up and no tool was called yet.
\* The port may already be taken when the server starts.
InitConn ==
  /\ variant \in Variants
  \* only part_003 branches on os.platform() in the paths modelled here
  /\ platform \in IF variant = P3 THEN {"win32", "posix"} ELSE {"posix"}
  /\ port \in {"free", "browser", "webview"}
  /\ targets \in 0..MaxTargets
  /\ port = "free" => targets = 0
  /\ proc = [p \in Pids |-> [st |-> "unused", by |-> "none", tracked |-> FALSE]]
  /\ exitEvents = {}
  /\ kills = {}
  /\ connection = "null"
  /\ chromeProcess = 0
  /\ currentTabId = 0
  /\ browserContext = FALSE
  /\ persistentClients = {}
  /\ stealthApplied = FALSE
  /\ serverUp = TRUE
  /\ call = NoCall

Init ==
  /\ FetchAtRest
  /\ EngineAtRest
  /\ ListAtRest
  /\ AuxAtRest
  /\ InitConn

\* The same start, with the state each request arrives in kept for the
\* comparison at its end.
InitList ==
  /\ FetchAtRest
  /\ EngineAtRest
  /\ ListAtRest
  /\ NavAtRest
  /\ OvAtRest
  /\ TabsAtRest
  /\ LaterPartsAtRest
  /\ LastPartsAtRest
  /\ recording = TRUE
  /\ InitConn

(* ---- the world outside the server, followed while the server runs ---- *)

\* A spawned process exits (the user closes the window, the launcher process
\* hands over to another one, or a crash).
ProcessExit(p) ==
  /\ serverUp
  /\ proc[p].st = "alive"
  /\ proc' = [proc EXCEPT ![p].st = "exited"]
  /\ exitEvents' = IF proc[p].tracked THEN exitEvents \cup {p} ELSE exitEvents
  /\ UNCHANGED <<variant, platform, port, targets, kills, connectorVars, serverVars>>
  /\ UNCHANGED nonConnVars

\* A browser this server spawned starts serving the debugging port.
BrowserBindsPort ==
  /\ serverUp
  /\ port = "free"
  /\ Alive # {}
  /\ port' = "browser"
  /\ targets' = 1
  /\ UNCHANGED <<variant, platform, proc, exitEvents, kills, connectorVars, serverVars>>
  /\ UNCHANGED nonConnVars

\* Somebody else starts a browser, or a WebView host, on the port.
PortTaken(who, tg) ==
  /\ serverUp
  /\ port = "free"
  /\ port' = who
  /\ targets' = tg
  /\ UNCHANGED <<variant, platform, proc, exitEvents, kills, connectorVars, serverVars>>
  /\ UNCHANGED nonConnVars

\* Whatever served the port stops serving it.
PortCloses ==
  /\ serverUp
  /\ port # "free"
  /\ port' = "free"
  /\ targets' = 0
  /\ UNCHANGED <<variant, platform, proc, exitEvents, kills, connectorVars, serverVars>>
  /\ UNCHANGED nonConnVars

\* Tabs are opened and closed by the user.
TargetsChange(tg) ==
  /\ serverUp
  /\ port # "free"
  /\ tg # targets
  /\ targets' = tg
  /\ UNCHANGED <<variant, platform, port, proc, exitEvents, kills, connectorVars, serverVars>>
  /\ UNCHANGED nonConnVars

(* ---- listeners and signals ---- *)

Stamp(ks, t) == {[pid |-> x.pid, by |-> x.by, tool |-> t] : x \in ks}

\* chromeProcess.on('exit', ...).  chrome-connector.ts waits 500 ms and asks
\* the port for its targets: when it answers with at least one it only drops
\* the handle.  part_003 cleans up unconditionally.
ExitListener(p) ==
  /\ serverUp
  /\ p \in exitEvents
  /\ exitEvents' = exitEvents \ {p}
  /\ IF variant = CC /\ ListAnswers(port) /\ targets > 0
     THEN SetConn([Conn EXCEPT !.chromeProcess = 0])
     ELSE SetConn(handleProcessDeath(Conn))
  /\ UNCHANGED <<variant, platform, port, targets, proc, kills, serverVars>>
  /\ UNCHANGED nonConnVars

\* process.on('SIGINT' / 'SIGTERM'): connector.disconnect(); process.exit(0).
Shutdown ==
  /\ serverUp
  /\ serverUp' = FALSE
  /\ SetConn(disconnect(Conn))
  /\ kills' = kills \cup Stamp(KillsOnDisconnect(Conn), "SIGINT")
  /\ proc' = ProcAfterKills(KillsOnDisconnect(Conn))
  /\ exitEvents' = {}
  /\ call' = NoCall
  /\ UNCHANGED <<variant, platform, port, targets>>
  /\ UNCHANGED nonConnVars

(* ---- the dispatcher: server.setRequestHandler(CallToolRequestSchema) ---- *)

toolLookupActiveOnly(name) ==
  name \in coreTools(variant) \cup controlTools
             \cup (IF advancedToolsEnabled THEN advancedTools ELSE {})

\* const tool = allToolsMap.get(name): the table holds every tool, listed
\* or not.
toolLookup(name) == name \in allToolsMap(variant)

\* Lines 284-329: look the tool up (outside the try), then the lazy-init
\* precheck unless the tool is in noConnectionNeeded.
CallTool(name) ==
  /\ serverUp
  /\ name \in ToolNames(variant)
  /\ call.pc = "idle"
  /\ LET base == [NoCall EXCEPT !.tool = name,
                                !.snap = IF recording THEN Snap ELSE NoSnap,
                                !.coldLaunch = /\ name = LaunchTool(variant)
                                               /\ connection = "null"
                                               /\ port = "free"]
     IN call' = IF ~toolLookup(name) THEN Finish(base, "thrown")
                ELSE IF name \in noConnectionNeeded THEN [base EXCEPT !.pc = "validate"]
                ELSE [base EXCEPT !.pc = "ec_start", !.ret = "dispatcher",
                                  !.ctx = "ensureConnected"]
  /\ UNCHANGED <<envVars, connectorVars, serverUp>>
  /\ UNCHANGED nonConnVars

\* Line 332: tool.inputSchema.parse(args || {}); a ZodError lands in the catch.
Validate(args) ==
  /\ serverUp
  /\ call.pc = "validate"
  /\ call' = IF args = "invalid" THEN Finish(call, "invalid_args")
             ELSE [call EXCEPT !.pc = "handler", !.reached = TRUE,
                               !.snap = NoSnap]
  /\ UNCHANGED <<envVars, connectorVars, serverUp>>
  /\ UNCHANGED nonConnVars

(* ---- ensureConnected ---- *)

\* "Already connected -> verify still alive": CDP.List answers (and, in
\* chrome-connector.ts, lists a target); otherwise handleProcessDeath and on.
EcStart ==
  /\ serverUp
  /\ call.pc = "ec_start"
  /\ LET alive == ListAnswers(port) /\ (variant = CC => targets > 0)
         on == IF variant = P3 THEN "ec_probe" ELSE "ec_connect"
     IN IF connection # "null" /\ alive
        THEN /\ call' = EcReturn(call, TRUE)
             /\ UNCHANGED connectorVars
        ELSE /\ call' = [call EXCEPT !.pc = on]
             /\ SetConn(IF connection # "null" THEN handleProcessDeath(Conn) ELSE Conn)
  /\ UNCHANGED <<envVars, serverUp>>
  /\ UNCHANGED nonConnVars

\* part_003: isRealBrowserOnPort(); when false, throw 'No Chrome browser detected'.
EcProbe ==
  /\ serverUp
  /\ call.pc = "ec_probe"
  /\ call' = IF isRealBrowserOnPort(port) THEN [call EXCEPT !.pc = "ec_connect"]
             ELSE EcReturn(call, FALSE)
  /\ UNCHANGED <<envVars, connectorVars, serverUp>>
  /\ UNCHANGED nonConnVars

\* connect() and what follows it.  On failure part_003 throws and
\* chrome-connector.ts calls launchWithProfile({profileDirectory:'Default'}).
EcConnect ==
  /\ serverUp
  /\ call.pc = "ec_connect"
  /\ \E o \in ConnectOutcomes(port, targets) :
       IF o = "fail"
       THEN /\ call' = IF variant = P3 THEN EcReturn(call, FALSE)
                       ELSE [call EXCEPT !.pc = "lw_start", !.lwRet = "ensureConnected"]
            /\ UNCHANGED connectorVars
       ELSE /\ call' = EcReturn(call, TRUE)
            /\ \E st \in StealthOutcomes(Conn), pw \in PlaywrightOutcomes(Conn) :
                 SetConn([Conn EXCEPT !.connection = o, !.stealthApplied = st,
                                      !.browserContext = pw])
  /\ UNCHANGED <<envVars, serverUp>>
  /\ UNCHANGED nonConnVars

\* chrome-connector.ts: the 3 s wait after its own launch, then return.
EcSettle ==
  /\ serverUp
  /\ call.pc = "ec_settle"
  /\ call' = EcReturn(call, TRUE)
  /\ UNCHANGED <<envVars, connectorVars, serverUp>>
  /\ UNCHANGED nonConnVars

(* ---- launchWithProfile ---- *)

\* bringWindowToForeground ends in the shell fallback spawn when it is
\* connected, the port lists no page, createTarget fails and the platform is
\* win32.  The spawned process is not stored anywhere.
ShellFallbackSpawns(k, created) ==
  /\ k.connection # "null"
  /\ ListAnswers(port)
  /\ targets = 0
  /\ ~created
  /\ platform = "win32"
  /\ Unused # {}

ProcAfterShellFallback(by) ==
  [proc EXCEPT ![NewPid] = [st |-> "alive", by |-> by, tracked |-> FALSE]]

\* "1. Check connections".
LwStart ==
  /\ serverUp
  /\ call.pc = "lw_start"
  /\ IF connection = "null"
     THEN /\ call' = [call EXCEPT !.pc = IF variant = P3 THEN "lw_probe" ELSE "lw_attach"]
          /\ UNCHANGED <<connectorVars, kills, proc, exitEvents, targets>>
     ELSE IF variant = CC
     THEN /\ call' = LwReturn(call, TRUE)
          /\ UNCHANGED <<connectorVars, kills, proc, exitEvents, targets>>
     ELSE IF call.force
     THEN /\ call' = [call EXCEPT !.pc = "lw_probe"]
          /\ SetConn(disconnect(Conn))
          /\ kills' = kills \cup Stamp(KillsOnDisconnect(Conn), call.tool)
          /\ proc' = ProcAfterKills(KillsOnDisconnect(Conn))
          /\ exitEvents' = ExitEventsAfterKills(KillsOnDisconnect(Conn))
          /\ UNCHANGED targets
     ELSE /\ call' = LwReturn(call, TRUE)
          /\ \E created \in BOOLEAN :
               /\ proc' = IF ShellFallbackSpawns(Conn, created)
                          THEN ProcAfterShellFallback("bringWindowToForeground") ELSE proc
               /\ targets' = IF ListAnswers(port) /\ targets = 0 /\ created THEN 1 ELSE targets
          /\ UNCHANGED <<connectorVars, kills, exitEvents>>
  /\ UNCHANGED <<variant, platform, port, serverUp>>
  /\ UNCHANGED nonConnVars

\* part_003: isRealBrowserOnPort() decides between attaching and spawning.
LwProbe ==
  /\ serverUp
  /\ call.pc = "lw_probe"
  /\ call' = [call EXCEPT !.pc = IF isRealBrowserOnPort(port) THEN "lw_attach" ELSE "lw_spawn"]
  /\ UNCHANGED <<envVars, connectorVars, serverUp>>
  /\ UNCHANGED nonConnVars

\* connect() to what is on the port; a failure is swallowed and the launch
\* goes on to spawn.
LwAttach ==
  /\ serverUp
  /\ call.pc = "lw_attach"
  /\ \E o \in ConnectOutcomes(port, targets) :
       IF o = "fail"
       THEN /\ call' = [call EXCEPT !.pc = "lw_spawn"]
            /\ UNCHANGED connectorVars
       ELSE /\ call' = IF variant = CC THEN LwReturn(call, TRUE)
                       ELSE [call EXCEPT !.pc = "lw_foreground"]
            /\ SetConn([Conn EXCEPT !.connection = o])
  /\ UNCHANGED <<envVars, serverUp>>
  /\ UNCHANGED nonConnVars

\* part_003 attach branch after connect(): listTabs (a rejection is caught by
\* the enclosing try and the launch goes on to spawn), createTarget when no
\* page is listed, bringWindowToForeground, return.
LwForeground ==
  /\ serverUp
  /\ call.pc = "lw_foreground"
  /\ IF ~ListAnswers(port)
     THEN /\ call' = [call EXCEPT !.pc = "lw_spawn"]
          /\ UNCHANGED <<proc, targets>>
     ELSE /\ call' = LwReturn(call, TRUE)
          /\ \E created \in BOOLEAN :
               /\ proc' = IF ShellFallbackSpawns(Conn, created)
                          THEN ProcAfterShellFallback("bringWindowToForeground") ELSE proc
               /\ targets' = IF targets = 0 /\ created /\ connection # "null" THEN 1 ELSE targets
  /\ UNCHANGED <<variant, platform, port, exitEvents, kills, connectorVars, serverUp>>
  /\ UNCHANGED nonConnVars

\* this.chromeProcess = spawn(...), with its 'exit' and 'error' listeners.
LwSpawn ==
  /\ serverUp
  /\ call.pc = "lw_spawn"
  /\ Unused # {}
  /\ proc' = [proc EXCEPT ![NewPid] =
                [st |-> "alive", by |-> call.ctx, tracked |-> TRUE]]
  /\ SetConn([Conn EXCEPT !.chromeProcess = NewPid])
  /\ call' = [call EXCEPT !.pc = "lw_wait"]
  /\ UNCHANGED <<variant, platform, port, targets, exitEvents, kills, serverUp>>
  /\ UNCHANGED nonConnVars

\* After the waits: part_003 throws when the handle was cleared meanwhile
\* and otherwise asks the system for the process; chrome-connector.ts goes
\* straight to the connect loop.
LwWait ==
  /\ serverUp
  /\ call.pc = "lw_wait"
  /\ call' = IF variant = CC THEN [call EXCEPT !.pc = "lw_connect"]
             ELSE IF chromeProcess = 0 THEN LwReturn(call, FALSE)
             ELSE [call EXCEPT !.pc = "lw_ps", !.pid = chromeProcess]
  /\ UNCHANGED <<envVars, connectorVars, serverUp>>
  /\ UNCHANGED nonConnVars

\* part_003 "Step 1": ps -p <pid>; no process name -> throw.
LwPs ==
  /\ serverUp
  /\ call.pc = "lw_ps"
  /\ call' = IF proc[call.pid].st = "alive" THEN [call EXCEPT !.pc = "lw_connect", !.pid = 0]
             ELSE LwReturn(call, FALSE)
  /\ UNCHANGED <<envVars, connectorVars, serverUp>>
  /\ UNCHANGED nonConnVars

\* One round of the connect retry loop (8 rounds in part_003, 10 in
\* chrome-connector.ts, MaxConnectTries here); then throw, leaving the
\* handle and the process as they are.
LwConnect ==
  /\ serverUp
  /\ call.pc = "lw_connect"
  /\ \E o \in ConnectOutcomes(port, targets) :
       IF o = "fail"
       THEN /\ call' = IF call.tries + 1 < MaxConnectTries
                       THEN [call EXCEPT !.tries = @ + 1]
                       ELSE LwReturn(call, FALSE)
            /\ UNCHANGED connectorVars
       ELSE /\ call' = [call EXCEPT !.pc = "lw_post", !.tries = 0]
            /\ SetConn([Conn EXCEPT !.connection = o])
  /\ UNCHANGED <<envVars, serverUp>>
  /\ UNCHANGED nonConnVars

\* After the loop: applyStealthMode (part_003), listTabs, Playwright attach.
LwPost ==
  /\ serverUp
  /\ call.pc = "lw_post"
  /\ call' = LwReturn(call, TRUE)
  /\ \E st \in StealthOutcomes(Conn), pw \in PlaywrightOutcomes(Conn) :
       SetConn([Conn EXCEPT !.stealthApplied = st, !.browserContext = pw])
  /\ UNCHANGED <<envVars, serverUp>>
  /\ UNCHANGED nonConnVars

(* ---- tool handlers ---- *)

\* launch_chrome_with_profile (force: true) / launch_edge_with_profile.
HLaunch ==
  /\ serverUp
  /\ call.pc = "handler"
  /\ call.tool = LaunchTool(variant)
  /\ call' = [call EXCEPT !.pc = "lw_start", !.lwRet = "handler",
                          !.force = (variant = P3), !.ctx = "launchWithProfile"]
  /\ UNCHANGED <<envVars, connectorVars, serverUp>>
  /\ UNCHANGED nonConnVars

\* close_browser: killChrome() in playwright-launcher.ts; in part_002
\* disconnect() when a Playwright context is held, else success:false.
HCloseBrowser ==
  /\ serverUp
  /\ call.pc = "handler"
  /\ call.tool = "close_browser"
  /\ IF variant = CC
     THEN /\ SetConn(killChrome(Conn))
          /\ kills' = kills \cup Stamp(KillsOnKillChrome(Conn), call.tool)
          /\ proc' = ProcAfterKills(KillsOnKillChrome(Conn))
          /\ exitEvents' = ExitEventsAfterKills(KillsOnKillChrome(Conn))
          /\ call' = Finish(call, IF chromeProcess # 0 \/ connection # "null"
                                  THEN "ok" ELSE "fail")
     ELSE IF browserContext
     THEN /\ SetConn(disconnect(Conn))
          /\ kills' = kills \cup Stamp(KillsOnDisconnect(Conn), call.tool)
          /\ proc' = ProcAfterKills(KillsOnDisconnect(Conn))
          /\ exitEvents' = ExitEventsAfterKills(KillsOnDisconnect(Conn))
          /\ call' = Finish(call, "ok")
     ELSE /\ call' = Finish(call, "fail")
          /\ UNCHANGED <<connectorVars, kills, proc, exitEvents>>
  /\ UNCHANGED <<variant, platform, port, targets, serverUp>>
  /\ UNCHANGED nonConnVars

\* get_browser_status reads the connector and returns.
HGetBrowserStatus ==
  /\ serverUp
  /\ call.pc = "handler"
  /\ call.tool = "get_browser_status"
  /\ call' = Finish(call, "ok")
  /\ UNCHANGED <<envVars, connectorVars, serverUp>>
  /\ UNCHANGED nonConnVars

\* manage_tabs starts with connector.verifyConnection(): part_003 delegates
\* to ensureConnected; chrome-connector.ts throws when not connected and,
\* when the port lists no target, cleans up and throws.
HManageTabs ==
  /\ serverUp
  /\ call.pc = "handler"
  /\ call.tool = "manage_tabs"
  /\ IF variant = P3
     THEN /\ call' = [call EXCEPT !.pc = "ec_start", !.ret = "handler",
                                  !.ctx = "ensureConnected"]
          /\ UNCHANGED connectorVars
     ELSE IF connection = "null"
     THEN /\ call' = Finish(call, "error")
          /\ UNCHANGED connectorVars
     ELSE IF ListAnswers(port) /\ targets > 0
     THEN /\ call' = [call EXCEPT !.pc = "body"]
          /\ UNCHANGED connectorVars
     ELSE /\ call' = Finish(call, "error")
          /\ SetConn(handleProcessDeath(Conn))
  /\ UNCHANGED <<envVars, serverUp>>
  /\ UNCHANGED nonConnVars

\* manage_tabs {action:'switch'}: activateTab sets currentTabId once
\* CDP.Activate resolved, and throws otherwise.
ActivateTab ==
  /\ serverUp
  /\ call.pc = "body"
  /\ call.tool = "manage_tabs"
  /\ IF ListAnswers(port) /\ targets > 0
     THEN /\ SetConn([Conn EXCEPT !.currentTabId = 1])
          /\ call' = Finish(call, "ok")
     ELSE /\ UNCHANGED connectorVars
          /\ call' = Finish(call, "error")
  /\ UNCHANGED <<envVars, serverUp>>
  /\ UNCHANGED nonConnVars

\* An interception tool asks for the persistent client of the default tab:
\* getPersistentClient() returns the stored one or opens and stores one.
GetPersistentClient ==
  /\ serverUp
  /\ call.pc = "handler"
  /\ call.tool = "enable_response_interception"
  /\ IF "default" \in persistentClients
     THEN /\ UNCHANGED connectorVars
          /\ call' = Finish(call, "ok")
     ELSE IF ListAnswers(port) /\ targets > 0
     THEN /\ SetConn([Conn EXCEPT !.persistentClients = @ \cup {"default"}])
          /\ call' = Finish(call, "ok")
     ELSE /\ UNCHANGED connectorVars
          /\ call' = Finish(call, "error")
  /\ UNCHANGED <<envVars, serverUp>>
  /\ UNCHANGED nonConnVars

Next ==
  \/ \E p \in Pids : ProcessExit(p)
  \/ BrowserBindsPort
  \/ \E who \in {"browser", "webview"}, tg \in 0..MaxTargets : PortTaken(who, tg)
  \/ PortCloses
  \/ \E tg \in 0..MaxTargets : TargetsChange(tg)
  \/ \E p \in Pids : ExitListener(p)
  \/ Shutdown
  \/ \E name \in AllToolNames : CallTool(name)
  \/ \E args \in {"valid", "invalid"} : Validate(args)
  \/ EcStart
  \/ EcProbe
  \/ EcConnect
  \/ EcSettle
  \/ LwStart
  \/ LwProbe
  \/ LwAttach
  \/ LwForeground
  \/ LwSpawn
  \/ LwWait
  \/ LwPs
  \/ LwConnect
  \/ LwPost
  \/ HLaunch
  \/ HCloseBrowser
  \/ HGetBrowserStatus
  \/ HManageTabs
  \/ ActivateTab
  \/ GetPersistentClient

-----------------------------------------------------------------------------
(***************************************************************************)
(* Part 4.  The protocol messages around the dispatcher (index.ts):        *)
(* initialize, tools/list, notifications/initialized, and the two control  *)
(* tools that switch the visibility of the advanced catalogue.             *)
(***************************************************************************)

\* tools/list served from every catalogue whatever the flag says.
getActiveToolsAll(flag) == allToolsMap(variant)

\* getActiveTools(): [...coreTools, ...controlTools] and, when the flag is
\* set, ...advancedTools.
getActiveTools(flag) ==
  coreTools(variant) \cup controlTools \cup (IF flag THEN advancedTools ELSE {})

\* initialize: answered by the SDK with the server info and capabilities.
Initialize ==
  /\ serverUp
  /\ messages' = messages \cup {"initialize"}
  /\ UNCHANGED <<advancedToolsEnabled, listed, listChanged>>
  /\ UNCHANGED <<connVars, nonListVars>>

\* notifications/initialized: no handler is registered for it.
Initialized ==
  /\ serverUp
  /\ messages' = messages \cup {"notifications/initialized"}
  /\ UNCHANGED <<advancedToolsEnabled, listed, listChanged>>
  /\ UNCHANGED <<connVars, nonListVars>>

\* A tools/list handler that starts the lazy connection before it answers.
ListToolsConnecting ==
  /\ serverUp
  /\ call.pc = "idle"
  /\ messages' = messages \cup {"tools/list"}
  /\ listed' = getActiveTools(advancedToolsEnabled)
  /\ listChanged' = FALSE
  /\ call' = [call EXCEPT !.pc = "ec_start", !.ret = "dispatcher", !.ctx = "ensureConnected"]
  /\ UNCHANGED <<advancedToolsEnabled, envVars, connectorVars, serverUp, nonListVars>>

\* server.setRequestHandler(ListToolsRequestSchema): maps getActiveTools() to
\* name, description and JSON schema; it does not touch the connector.
ListTools ==
  /\ serverUp
  /\ messages' = messages \cup {"tools/list"}
  /\ listed' = getActiveTools(advancedToolsEnabled)
  /\ listChanged' = FALSE
  /\ UNCHANGED advancedToolsEnabled
  /\ UNCHANGED <<connVars, nonListVars>>

\* show_advanced_tools / hide_advanced_tools: set the flag, then send
\* notifications/tools/list_changed (a failure to send is only logged).
HSetAdvancedTools(on) ==
  /\ serverUp
  /\ call.pc = "handler"
  /\ call.tool = (IF on THEN "show_advanced_tools" ELSE "hide_advanced_tools")
  /\ advancedToolsEnabled' = on
  /\ \E sent \in BOOLEAN : listChanged' = (listChanged \/ sent)
  /\ call' = Finish(call, "ok")
  /\ UNCHANGED <<listed, messages>>
  /\ UNCHANGED <<envVars, connectorVars, serverUp, nonListVars>>

-----------------------------------------------------------------------------
-----------------------------------------------------------------------------
(***************************************************************************)
(* Part 5.  A handler that navigates: the navigate action of               *)
(* intercept_and_modify_traffic and navigate_and_extract_content, run by    *)
(* the dispatcher's `await tool.handler(validatedArgs)`.                   *)
(***************************************************************************)

NavTools == {"intercept_and_modify_traffic", "navigate_and_extract_content"}

InitNavigate ==
  /\ FetchAtRest
  /\ EngineAtRest
  /\ ConnAtRest
  /\ ListAtRest
  /\ NavAtRest
  /\ OvAtRest
  /\ TabsAtRest
  /\ LaterPartsAtRest
  /\ LastPartsAtRest
  /\ recording = FALSE

\* index.ts line 335: the dispatcher awaits the handler; the handler enables
\* the Page domain and calls Page.navigate.
NavCall(tool, timeout, selector) ==
  /\ navPc = "idle"
  /\ navTool' = tool
  /\ navTimeout' = timeout
  /\ navSelector' = (selector /\ tool = "navigate_and_extract_content")
  /\ navPc' = "navigate"
  /\ loadFired' = FALSE
  /\ selectorTimer' = 0
  /\ clock' = 0
  /\ navResult' = "none"
  /\ UNCHANGED nonNavVars

\* The handler's own catch turns a throw into {success: false, error}.
NavFinish(res) ==
  /\ navPc' = "idle"
  /\ navResult' = res
  /\ UNCHANGED <<navTool, navTimeout, navSelector, loadFired, selectorTimer, clock>>

\* await Page.navigate({url}) resolves or rejects; then
\* `await Page.loadEventFired()` registers the listener and suspends.
PageNavigate(ok) ==
  /\ navPc = "navigate"
  /\ IF ok
     THEN /\ navPc' = "wait_load"
          /\ UNCHANGED <<navTool, navTimeout, navSelector, loadFired,
                         selectorTimer, clock, navResult>>
     ELSE NavFinish("fail")
  /\ UNCHANGED nonNavVars

\* The browser delivers Page.loadEventFired.  Nothing obliges it to: a page
\* whose load never completes sends none.
LoadEventFired ==
  /\ navPc = "wait_load"
  /\ ~loadFired
  /\ loadFired' = TRUE
  /\ UNCHANGED <<navTool, navPc, navTimeout, navSelector, selectorTimer,
                 clock, navResult>>
  /\ UNCHANGED nonNavVars

\* The await on Page.loadEventFired() resumes once the event was delivered:
\* smart-workflows.ts line 225 goes on to the 2 s settle wait, line 382 to
\* the selector wait (when asked for) or to the extraction.
AwaitLoad ==
  /\ navPc = "wait_load"
  /\ loadFired
  /\ navPc' = IF navSelector THEN "wait_selector" ELSE "finish"
  /\ selectorTimer' = IF navSelector THEN navTimeout ELSE selectorTimer
  /\ UNCHANGED <<navTool, navTimeout, navSelector, loadFired, clock, navResult>>
  /\ UNCHANGED nonNavVars

\* Lines 385-401: the in-page promise resolves when the selector matches and
\* rejects when its setTimeout(timeout) fires.
WaitSelector(found) ==
  /\ navPc = "wait_selector"
  /\ IF found
     THEN /\ navPc' = "finish"
          /\ UNCHANGED <<navTool, navTimeout, navSelector, loadFired,
                         selectorTimer, clock, navResult>>
     ELSE /\ selectorTimer = 0
          /\ NavFinish("fail")
  /\ UNCHANGED nonNavVars

\* The rest of the handler (settle wait and Fetch.disable, or the extraction
\* script) and its return through the dispatcher.
NavReturn ==
  /\ navPc = "finish"
  /\ NavFinish("ok")
  /\ UNCHANGED nonNavVars

\* Time passes while the call is pending; the model's clock stops counting
\* at MaxClock, the in-page timer of the selector wait runs on.
Tick ==
  /\ navPc # "idle"
  /\ clock < MaxClock \/ (navPc = "wait_selector" /\ selectorTimer > 0)
  /\ clock' = IF clock < MaxClock THEN clock + 1 ELSE clock
  /\ selectorTimer' = IF navPc = "wait_selector" /\ selectorTimer > 0
                      THEN selectorTimer - 1 ELSE selectorTimer
  /\ UNCHANGED <<navTool, navPc, navTimeout, navSelector, loadFired, navResult>>
  /\ UNCHANGED nonNavVars

NextNavigate ==
  \/ \E tool \in NavTools, timeout \in 1..MaxTimeout, selector \in BOOLEAN :
       NavCall(tool, timeout, selector)
  \/ \E ok \in BOOLEAN : PageNavigate(ok)
  \/ LoadEventFired
  \/ AwaitLoad
  \/ \E found \in BOOLEAN : WaitSelector(found)
  \/ NavReturn
  \/ Tick

-----------------------------------------------------------------------------
(***************************************************************************)
(* Part 6.  Call-tool requests that overlap.  The CallTool handler of      *)
(* index.ts is an async function registered with the server: it is started *)
(* for every request as it arrives and holds no lock, queue or in-flight   *)
(* flag, so a second request runs between the awaits of the first.  The    *)
(* connector is the part_003 copy; the port does not change.               *)
(***************************************************************************)

OvTools == {"get_browser_status", "manage_tabs"}

InitOverlap ==
  /\ FetchAtRest
  /\ EngineAtRest
  /\ ConnAtRest
  /\ ListAtRest
  /\ NavAtRest
  /\ TabsAtRest
  /\ LaterPartsAtRest
  /\ LastPartsAtRest
  /\ recording = FALSE
  /\ ovPort \in {"free", "browser", "webview"}
  /\ ovCall = [i \in Slots |-> [tool |-> "none", pc |-> "idle", ret |-> "none"]]
  /\ ovClients = {}
  /\ ovConnection = 0
  /\ ovStarted = 0

OvSet(i, pc) == ovCall' = [ovCall EXCEPT ![i].pc = pc]

OvEnd(i) == ovCall' = [ovCall EXCEPT ![i].pc = "idle", ![i].ret = "none"]

\* ensureConnected returned: to the dispatcher (argument validation comes
\* next) or to verifyConnection inside the handler.
OvEcReturn(i) ==
  ovCall' = [ovCall EXCEPT ![i].pc = IF ovCall[i].ret = "dispatcher"
                                     THEN "validate" ELSE "body"]

\* index.ts lines 284-307: a request arrives while slot i is free; nothing
\* looks at the other requests in flight.
OvCallTool(i, name) ==
  /\ ovCall[i].pc = "idle"
  /\ ovStarted < MaxCalls
  /\ ovStarted' = ovStarted + 1
  /\ ovCall' = [ovCall EXCEPT ![i] =
                  IF name \in noConnectionNeeded
                  THEN [tool |-> name, pc |-> "validate", ret |-> "none"]
                  ELSE [tool |-> name, pc |-> "ec_start", ret |-> "dispatcher"]]
  /\ UNCHANGED <<ovPort, ovClients, ovConnection>>
  /\ UNCHANGED nonOvVars

\* part_003 lines 699-709: `if (this.connection?.connected)` is read, then
\* `await CDP.List`: alive returns, dead runs handleProcessDeath.
OvEcStart(i) ==
  /\ ovCall[i].pc = "ec_start"
  /\ IF ovConnection # 0
     THEN IF ListAnswers(ovPort)
          THEN OvEcReturn(i) /\ UNCHANGED ovConnection
          ELSE OvSet(i, "ec_probe") /\ ovConnection' = 0
     ELSE OvSet(i, "ec_probe") /\ UNCHANGED ovConnection
  /\ UNCHANGED <<ovPort, ovClients, ovStarted>>
  /\ UNCHANGED nonOvVars

\* Lines 713-714 and 738-: `await this.isRealBrowserOnPort()`; without a real
\* browser ensureConnected throws and the call ends with an error.
OvEcProbe(i) ==
  /\ ovCall[i].pc = "ec_probe"
  /\ IF isRealBrowserOnPort(ovPort) THEN OvSet(i, "ec_connect") ELSE OvEnd(i)
  /\ UNCHANGED <<ovPort, ovClients, ovConnection, ovStarted>>
  /\ UNCHANGED nonOvVars

\* Lines 716 and 521-529: `const client = await CDP({port})` opens a root
\* client and this.connection is overwritten with it; the client it held is
\* not closed.
OvConnect(i) ==
  /\ ovCall[i].pc = "ec_connect"
  /\ LET id == Cardinality(ovClients) + 1
     IN /\ ovClients' = ovClients \cup {id}
        /\ ovConnection' = id
  /\ OvSet(i, "ec_stealth")
  /\ UNCHANGED <<ovPort, ovStarted>>
  /\ UNCHANGED nonOvVars

\* Lines 718-734: applyStealthMode, the Playwright attach and listTabs are
\* awaited one after the other, then ensureConnected returns.
OvPostConnect(i) ==
  /\ ovCall[i].pc \in {"ec_stealth", "ec_playwright", "ec_tabs"}
  /\ IF ovCall[i].pc = "ec_stealth" THEN OvSet(i, "ec_playwright")
     ELSE IF ovCall[i].pc = "ec_playwright" THEN OvSet(i, "ec_tabs")
     ELSE OvEcReturn(i)
  /\ UNCHANGED <<ovPort, ovClients, ovConnection, ovStarted>>
  /\ UNCHANGED nonOvVars

\* index.ts lines 332-335: parse the arguments, then the handler:
\* get_browser_status returns; manage_tabs starts with verifyConnection(),
\* which part_003 delegates to ensureConnected.
OvHandler(i) ==
  /\ ovCall[i].pc = "validate"
  /\ IF ovCall[i].tool = "manage_tabs"
     THEN ovCall' = [ovCall EXCEPT ![i].pc = "ec_start", ![i].ret = "handler"]
     ELSE OvEnd(i)
  /\ UNCHANGED <<ovPort, ovClients, ovConnection, ovStarted>>
  /\ UNCHANGED nonOvVars

\* The body of manage_tabs and the return of its result.
OvBody(i) ==
  /\ ovCall[i].pc = "body"
  /\ OvEnd(i)
  /\ UNCHANGED <<ovPort, ovClients, ovConnection, ovStarted>>
  /\ UNCHANGED nonOvVars

NextOverlap ==
  \E i \in Slots :
    \/ \E name \in OvTools : OvCallTool(i, name)
    \/ OvEcStart(i)
    \/ OvEcProbe(i)
    \/ OvConnect(i)
    \/ OvPostConnect(i)
    \/ OvHandler(i)
    \/ OvBody(i)

-----------------------------------------------------------------------------
(***************************************************************************)
(* Part 7.  Targets, getTabClient and the persistent clients               *)
(* (chrome-connector.ts lines 554-747), on a browser that answers.         *)
(***************************************************************************)

TargetKinds == {"page", "service_worker", "iframe"}

IdsOf(ts) == {ts[n].id : n \in 1..Len(ts)}

KindOf(ts, id) ==
  IF id \in IdsOf(ts)
  THEN ts[CHOOSE n \in 1..Len(ts) : ts[n].id = id].type
  ELSE "none"

\* listTabs(): CDP.List filtered to pages, service workers, background pages
\* and 'other', in the order of enumeration.
listTabs(ts) ==
  SelectSeq(ts, LAMBDA t : t.type \in {"page", "service_worker",
                                       "background_page", "other"})

\* CDP({port, target: id}): the client of the target with that id, whatever
\* its type; an id the browser does not list is refused (0).
CDP(ts, id) == IF id \in IdsOf(ts) THEN id ELSE 0

\* getTabClient(tabId): `tabId || this.currentTabId`, else tabs[0] of
\* listTabs(); 0 stands for the thrown error.
getTabClient(tabId, cur, ts) ==
  LET target == IF tabId # 0 THEN tabId ELSE cur
  IN IF target = 0
     THEN IF Len(listTabs(ts)) = 0 THEN 0 ELSE CDP(ts, listTabs(ts)[1].id)
     ELSE CDP(ts, target)

\* The target lists a browser shows when the first call is made: none, one
\* or two targets of any kind.
TargetLists ==
  {<<>>}
    \cup {<<[id |-> a, type |-> k]>> : a \in TabIds, k \in TargetKinds}
    \cup {ts \in {<<[id |-> a, type |-> k], [id |-> b, type |-> l]>> :
                     a \in TabIds, b \in TabIds, k \in TargetKinds, l \in TargetKinds} :
            ts[1].id # ts[2].id}

InitTabClient ==
  /\ FetchAtRest
  /\ EngineAtRest
  /\ ConnAtRest
  /\ ListAtRest
  /\ NavAtRest
  /\ OvAtRest
  /\ LaterPartsAtRest
  /\ LastPartsAtRest
  /\ recording = FALSE
  /\ tTargets \in {ts \in TargetLists : Len(ts) <= MaxTabs}
  /\ tCurrentTabId = 0
  /\ TabClientAtRest
  /\ PersistentAtRest

InitPersistent == InitTabClient

\* The browser opens a target (a tab, a service worker, a frame).
OpenTarget(k) ==
  /\ Len(tTargets) < MaxTabs
  /\ \E id \in TabIds \ IdsOf(tTargets) : \E front \in BOOLEAN :
       tTargets' = IF front THEN <<[id |-> id, type |-> k]>> \o tTargets
                   ELSE Append(tTargets, [id |-> id, type |-> k])
  /\ UNCHANGED <<tCurrentTabId, tabClientVars, persistentVars>>
  /\ UNCHANGED nonTabVars

\* A target goes away (closeTab, or the user closes it); currentTabId and
\* the clients opened on it are not touched by that.
CloseTarget(id) ==
  /\ id \in IdsOf(tTargets)
  /\ tTargets' = SelectSeq(tTargets, LAMBDA t : t.id # id)
  /\ UNCHANGED <<tCurrentTabId, tabClientVars, persistentVars>>
  /\ UNCHANGED nonTabVars

\* activateTab(tabId): CDP.Activate, then this.currentTabId = tabId; an id
\* that is not a listed page is refused and the field is left alone.
activateTab(id) ==
  /\ KindOf(tTargets, id) = "page"
  /\ tCurrentTabId' = id
  /\ UNCHANGED <<tTargets, tabClientVars, persistentVars>>
  /\ UNCHANGED nonTabVars

\* A tool asks for the client of a tab: connector.getTabClient(tabId).
GetTabClient(tabId) ==
  /\ tResult' = [called |-> TRUE, tabId |-> tabId,
                 target |-> getTabClient(tabId, tCurrentTabId, tTargets)]
  /\ UNCHANGED <<tabEnvVars, persistentVars>>
  /\ UNCHANGED nonTabVars

NextTabClient ==
  \/ \E k \in TargetKinds : OpenTarget(k)
  \/ \E id \in TabIds : CloseTarget(id)
  \/ \E id \in TabIds : activateTab(id)
  \/ \E tabId \in 0..MaxTabs : GetTabClient(tabId)

(* ---- persistent clients ---- *)

has(map, key) == \E e \in map : e.key = key

\* Map.set(key, client): the entry of the key is replaced.
set(map, key, client) ==
  {e \in map : e.key # key} \cup {[key |-> key, client |-> client]}

\* getPersistentClient(tabId) up to its first await: the key is
\* `tabId || 'default'`; a stored client is returned at once; otherwise the
\* target is `tabId || this.currentTabId`, else tabs[0].id of listTabs()
\* ('No open tabs available' when that is empty).
PcStart(i, tabId) ==
  /\ tPending[i].pc = "idle"
  /\ LET target == IF tabId # 0 THEN tabId ELSE tCurrentTabId
         tabs == listTabs(tTargets)
     IN IF has(tPersistent, tabId) \/ (target = 0 /\ Len(tabs) = 0)
        THEN UNCHANGED tPending
        ELSE tPending' = [tPending EXCEPT ![i] =
               [pc |-> "cdp", key |-> tabId,
                target |-> IF target # 0 THEN target ELSE tabs[1].id]]
  /\ UNCHANGED <<tabEnvVars, tabClientVars, tPersistent, tOpen>>
  /\ UNCHANGED nonTabVars

\* `const client = await CDP({port, target: targetId})` resolved or threw;
\* on success persistentClients.set(effectiveTabId, client).
PcOpen(i) ==
  /\ tPending[i].pc = "cdp"
  /\ tPending' = [tPending EXCEPT ![i] = NoPending]
  /\ IF CDP(tTargets, tPending[i].target) = 0
     THEN UNCHANGED <<tPersistent, tOpen>>
     ELSE /\ \E free \in ClientIds : free \notin {o.client : o \in tOpen}
          /\ LET c == CHOOSE free \in ClientIds : free \notin {o.client : o \in tOpen}
             IN /\ tOpen' = tOpen \cup {[client |-> c, target |-> tPending[i].target]}
                /\ tPersistent' = set(tPersistent, tPending[i].key, c)
  /\ UNCHANGED <<tabEnvVars, tabClientVars>>
  /\ UNCHANGED nonTabVars

\* closePersistentClient(tabId): close the stored client of the key and
\* delete the key.
closePersistentClient(tabId) ==
  /\ has(tPersistent, tabId)
  /\ LET e == CHOOSE e \in tPersistent : e.key = tabId
     IN /\ tOpen' = {o \in tOpen : o.client # e.client}
        /\ tPersistent' = tPersistent \ {e}
  /\ UNCHANGED <<tabEnvVars, tabClientVars, tPending>>
  /\ UNCHANGED nonTabVars

\* The browser drops the clients of a target that went away.
ClientLost ==
  /\ \E o \in tOpen : o.target \notin IdsOf(tTargets)
  /\ tOpen' = {o \in tOpen : o.target \in IdsOf(tTargets)}
  /\ UNCHANGED <<tabEnvVars, tabClientVars, tPersistent, tPending>>
  /\ UNCHANGED nonTabVars

NextPersistent ==
  \/ \E k \in TargetKinds : OpenTarget(k)
  \/ \E id \in TabIds : CloseTarget(id)
  \/ \E id \in TabIds : activateTab(id)
  \/ \E i \in Slots, tabId \in 0..MaxTabs : PcStart(i, tabId)
  \/ \E i \in Slots : PcOpen(i)
  \/ \E tabId \in 0..MaxTabs : closePersistentClient(tabId)
  \/ ClientLost

-----------------------------------------------------------------------------
(***************************************************************************)
(* Part 8.  The clients a call leaves behind: a tool handler that takes a  *)
(* tab client (tools/interaction.ts, tools/smart-workflows.ts), and the    *)
(* persistent-client table under killChrome and handleProcessDeath         *)
(* (chrome-connector.ts lines 327-405), on a browser that answers.         *)
(***************************************************************************)

InitClients ==
  /\ FetchAtRest
  /\ EngineAtRest
  /\ ConnAtRest
  /\ ListAtRest
  /\ NavAtRest
  /\ OvAtRest
  /\ LastPartsAtRest
  /\ recording = FALSE
  /\ tTargets \in {ts \in TargetLists : Len(ts) <= MaxTabs}
  /\ tCurrentTabId = 0
  /\ TabClientAtRest
  /\ PersistentAtRest
  /\ tToolCall = NoToolCall
  /\ tTabClients = {}
  /\ tOwned \in BOOLEAN
  /\ tPaused = 0
  /\ tKilled = FALSE
  /\ WorkflowAtRest
  /\ MatchAtRest
  /\ HeadersAtRest
  /\ SessionAtRest
  /\ LocksAtRest

\* A tool handler up to its body: `const client = await
\* connector.getTabClient(tabId)`; a throw of getTabClient goes to the
\* dispatcher and the call is over.
ToolCall(tabId) ==
  /\ tToolCall.pc = "idle"
  /\ Cardinality(tTabClients) < MaxClients
  /\ LET target == getTabClient(tabId, tCurrentTabId, tTargets)
         c == CHOOSE free \in ClientIds : free \notin {o.client : o \in tTabClients}
     IN IF target = 0
        THEN UNCHANGED <<tToolCall, tTabClients>>
        ELSE /\ tToolCall' = [pc |-> "body", client |-> c]
             /\ tTabClients' = tTabClients \cup {[client |-> c, target |-> target]}
  /\ UNCHANGED <<tOwned, tPaused, tKilled, tabEnvVars, persistentVars>>
  /\ UNCHANGED nonClientVars

\* The handler returns its result or throws: no handler calls client.close().
ToolReturn(ok) ==
  /\ tToolCall.pc = "body"
  /\ tToolCall' = NoToolCall
  /\ UNCHANGED <<tTabClients, tOwned, tPaused, tKilled, tabEnvVars, persistentVars>>
  /\ UNCHANGED nonClientVars

\* The browser pauses a request for an open client that enabled Fetch
\* (d = 1), or a paused request is continued by the client's callback or
\* dropped by the page (d = -1).
RequestTraffic(d) ==
  /\ tOpen # {} \/ tTabClients # {}
  /\ tPaused + d \in 0..MaxRequests
  /\ tPaused' = tPaused + d
  /\ UNCHANGED <<tToolCall, tTabClients, tOwned, tKilled, tabVars>>
  /\ UNCHANGED nonClientVars

\* close_browser: killChrome() closes the root client and the Playwright
\* browser, sends SIGKILL to the process whose handle is held, and then
\* `this.currentTabId = null; this.persistentClients.clear()`.  A killed
\* browser takes its targets, channels and paused requests with it; a
\* browser the connector only attached to keeps running.
KillChromeClients ==
  /\ tToolCall.pc = "idle"
  /\ tPersistent' = {}
  /\ tCurrentTabId' = 0
  /\ tOwned' = FALSE
  /\ IF tOwned
     THEN /\ tKilled' = TRUE
          /\ tTargets' = <<>> /\ tOpen' = {} /\ tTabClients' = {} /\ tPaused' = 0
     ELSE UNCHANGED <<tKilled, tTargets, tOpen, tTabClients, tPaused>>
  /\ UNCHANGED <<tToolCall, tPending>>
  /\ UNCHANGED nonClientVars

\* chromeProcess.on('error', ...) calls handleProcessDeath(): "Don't call
\* close() methods", null the fields and persistentClients.clear().
ProcessError ==
  /\ tOwned
  /\ tPersistent' = {}
  /\ tCurrentTabId' = 0
  /\ tOwned' = FALSE
  /\ UNCHANGED <<tTargets, tOpen, tPending, tToolCall, tTabClients, tPaused, tKilled>>
  /\ UNCHANGED nonClientVars

NextClients ==
  \/ \E tabId \in 0..MaxTabs : ToolCall(tabId)
  \/ \E ok \in BOOLEAN : ToolReturn(ok)
  \/ \E tabId \in 0..MaxTabs : PcStart(1, tabId)
  \/ PcOpen(1)
  \/ \E tabId \in 0..MaxTabs : closePersistentClient(tabId)
  \/ \E d \in {1, -1} : RequestTraffic(d)
  \/ KillChromeClients
  \/ ProcessError

-----------------------------------------------------------------------------
(***************************************************************************)
(* Part 9.  One run of a tool that enables the Fetch domain:               *)
(* add_custom_header_to_request (smart-workflows.ts lines 26-98),          *)
(* intercept_and_modify_traffic (125-256), capture_network_on_action       *)
(* (274-355).  The requestPaused callback of Part 1 runs meanwhile.        *)
(***************************************************************************)

\* The action arguments each tool's schema accepts.
ActionsOf(tool) ==
  CASE tool = "add_custom_header_to_request" -> {"none"}
    [] tool = "intercept_and_modify_traffic" -> {"click", "navigate", "wait"}
    [] tool = "capture_network_on_action" -> {"click", "navigate", "type"}

\* What the handler does after Fetch.enable.  add_custom_header_to_request
\* has no action argument: it clicks when clickSelector came, else navigates
\* when navigateUrl came, else does nothing.
StepOf(tool, args) ==
  IF tool = "add_custom_header_to_request"
  THEN IF args.selector THEN "click" ELSE IF args.url THEN "navigate" ELSE "none"
  ELSE args.action

\* `throw new Error('selector required ...')` and its siblings in the switch;
\* add_custom_header_to_request has no such check.
MissingArgument(tool, args) ==
  /\ tool # "add_custom_header_to_request"
  /\ \/ args.action = "click" /\ ~args.selector
     \/ args.action = "navigate" /\ ~args.url
     \/ args.action = "type" /\ ~(args.selector /\ args.text)

\* The step awaits a CDP call (Runtime.evaluate, Page.navigate,
\* Input.dispatchKeyEvent) whose promise the browser may reject.
CallsBrowser(tool, args) == StepOf(tool, args) \in {"click", "navigate", "type"}

InitWorkflow ==
  /\ EngineAtRest
  /\ ConnAtRest
  /\ ListAtRest
  /\ NavAtRest
  /\ OvAtRest
  /\ TabsAtRest
  /\ ToolClientsAtRest
  /\ MatchAtRest
  /\ HeadersAtRest
  /\ SessionAtRest
  /\ LocksAtRest
  /\ LastPartsAtRest
  /\ recording = FALSE
  /\ fetchTool \in SmartTools
  /\ fetchEnabled = FALSE
  /\ reqState = [r \in RequestIds |-> "none"]
  /\ handlerPc = [r \in RequestIds |-> "idle"]
  /\ issued = [r \in RequestIds |-> 0]
  /\ accepted = [r \in RequestIds |-> 0]
  /\ firstRejected = [r \in RequestIds |-> FALSE]
  /\ modifiedRequests = {}
  /\ WorkflowAtRest

\* "Validate inputs" of intercept_and_modify_traffic: a click without
\* selector or a navigate without url throws before anything is enabled.
RejectedAtEntry(tool, args) ==
  /\ tool = "intercept_and_modify_traffic"
  /\ MissingArgument(tool, args)

\* The handler up to the action: the entry validation, verifyConnection,
\* getTabClient, `await Fetch.enable({patterns})`, Fetch.requestPaused(callback).
WfCall(args) ==
  /\ wfPc = "idle"
  /\ args.action \in ActionsOf(fetchTool)
  /\ wfArgs' = args
  /\ IF RejectedAtEntry(fetchTool, args)
     THEN wfPc' = "returned" /\ wfResult' = "error" /\ UNCHANGED fetchEnabled
     ELSE wfPc' = "action" /\ fetchEnabled' = TRUE /\ UNCHANGED wfResult
  /\ UNCHANGED <<fetchTool, reqState, handlerPc, issued, accepted,
                 firstRejected, modifiedRequests>>
  /\ UNCHANGED nonWorkflowVars

\* The action.  A missing argument or a rejected CDP call throws to the
\* handler's catch, which returns {success: false, error, hint}.
WfAction(ok) ==
  /\ wfPc = "action"
  /\ IF MissingArgument(fetchTool, wfArgs) \/ (CallsBrowser(fetchTool, wfArgs) /\ ~ok)
     THEN wfPc' = "returned" /\ wfResult' = "error"
     ELSE wfPc' = "wait" /\ UNCHANGED wfResult
  /\ UNCHANGED <<wfArgs, fetchVars>>
  /\ UNCHANGED nonWorkflowVars

\* After the setTimeout wait: `await Fetch.disable()` and the return of
\* {success: true, ...}.  The browser releases what is still paused.
WfCleanup ==
  /\ wfPc = "wait"
  /\ wfPc' = "returned"
  /\ wfResult' = "ok"
  /\ fetchEnabled' = FALSE
  /\ reqState' = [r \in RequestIds |-> IF reqState[r] = "paused" THEN "gone" ELSE reqState[r]]
  /\ UNCHANGED <<wfArgs, fetchTool, handlerPc, issued, accepted, firstRejected,
                 modifiedRequests>>
  /\ UNCHANGED nonWorkflowVars

ArgSets ==
  [action : {"none", "click", "navigate", "wait", "type"},
   selector : BOOLEAN, url : BOOLEAN, text : BOOLEAN]

NextWorkflow ==
  \/ \E args \in ArgSets : WfCall(args)
  \/ \E ok \in BOOLEAN : WfAction(ok)
  \/ WfCleanup
  \/ \E r \in RequestIds : RequestPaused(r)
  \/ \E r \in RequestIds : HandlerFirstCall(r)
  \/ \E r \in RequestIds : HandlerFallback(r)

-----------------------------------------------------------------------------
(***************************************************************************)
(* Part 10.  What is done with a paused request when mock endpoints        *)
(* (create_mock_endpoint, list_mock_endpoints' callCount) and modify or    *)
(* observe rules are registered on the target, as the documentation        *)
(* describes it: traffic that matches a mock goes to the mock, not to the  *)
(* server.                                                                 *)
(***************************************************************************)

RuleKinds == {"mock", "modify", "observe"}

Rules == [kind : RuleKinds, matches : BOOLEAN]

\* The rule lists of up to MaxRules rules, in every declaration order.
RuleLists ==
  UNION {[1..n -> Rules] : n \in 0..MaxRules}

\* Mutant: plain first-match-wins in declaration order.
FirstMatchOnly(rules) ==
  LET matching == SelectSeq(rules, LAMBDA r : r.matches)
  IN IF Len(matching) = 0 THEN "none" ELSE matching[1].kind

\* The rule that decides: a matching mock wins over any modify or observe
\* rule, modify wins over observe; no match leaves the request alone.
Match(rules) ==
  LET kinds == {rules[n].kind : n \in {k \in 1..Len(rules) : rules[k].matches}}
  IN IF "mock" \in kinds THEN "mock"
     ELSE IF "modify" \in kinds THEN "modify"
     ELSE IF "observe" \in kinds THEN "observe"
     ELSE "none"

\* mock: Fetch.fulfillRequest from the mock, nothing goes upstream;
\* modify: continued with the patched request; observe / none: continued as is.
Dispatch(kind) ==
  [action |-> kind, forwarded |-> kind # "mock", modified |-> kind = "modify"]

InitMatch ==
  /\ FetchAtRest
  /\ EngineAtRest
  /\ ConnAtRest
  /\ ListAtRest
  /\ NavAtRest
  /\ OvAtRest
  /\ TabsAtRest
  /\ ToolClientsAtRest
  /\ WorkflowAtRest
  /\ HeadersAtRest
  /\ SessionAtRest
  /\ LocksAtRest
  /\ LastPartsAtRest
  /\ recording = FALSE
  /\ ruleList \in RuleLists
  /\ mockCallCount = 0
  /\ lastDispatch = NoDispatch

\* Fetch.requestPaused for a request of the page: match, dispatch, and count
\* the call when a mock served it.
RequestMatched ==
  /\ mockCallCount < MaxCalls
  /\ lastDispatch' = Dispatch(Match(ruleList))
  /\ mockCallCount' = IF Match(ruleList) = "mock" THEN mockCallCount + 1
                      ELSE mockCallCount
  /\ UNCHANGED ruleList
  /\ UNCHANGED nonMatchVars

NextMatch == RequestMatched

-----------------------------------------------------------------------------
(***************************************************************************)
(* Part 11.  The header merge of the requestPaused callbacks of            *)
(* intercept_and_modify_traffic (smart-workflows.ts lines 157-176) and     *)
(* add_custom_header_to_request (lines 40-48).  A headers object is a      *)
(* function from the names it holds to their values; the names are the     *)
(* keys as written, so "Cookie" and "cookie" are two keys.                 *)
(***************************************************************************)

AllHeaderNames == <<"Cookie", "X-Test", "cookie", "Accept", "accept">>

HeaderNames == {AllHeaderNames[n] : n \in 1..MaxHeaders}

HeaderValues == {"v1", "v2"}

\* Every headers object over the names.
HeaderObjects == UNION {[S -> HeaderValues] : S \in SUBSET HeaderNames}

\* Mutant: a spread in the other order, `{...addHeaders, ...finalHeaders}`.
finalHeadersOriginalWins(original, modifications) ==
  LET add == modifications.addHeaders
      merged == [n \in DOMAIN original \cup DOMAIN add |->
                   IF n \in DOMAIN original THEN original[n] ELSE add[n]]
  IN [n \in DOMAIN merged \ modifications.removeHeaders |-> merged[n]]

\* finalHeaders = {...originalHeaders}; then {...finalHeaders, ...addHeaders};
\* then `delete finalHeaders[header]` for each header of removeHeaders.
finalHeaders(original, modifications) ==
  LET add == modifications.addHeaders
      merged == [n \in DOMAIN original \cup DOMAIN add |->
                   IF n \in DOMAIN add THEN add[n] ELSE original[n]]
  IN [n \in DOMAIN merged \ modifications.removeHeaders |-> merged[n]]

\* Object.entries(finalHeaders).map(([name, value]) => ({name, value})):
\* one entry per key.  The values are strings already (the schema's
\* z.record(z.string()) and the protocol's Headers), so String(value) is value.
headersArray(headers) ==
  {[name |-> n, value |-> headers[n]] : n \in DOMAIN headers}

\* The modifications each tool can be given: add_custom_header_to_request
\* sets one header (headers[headerName] = headerValue) and removes none.
ModificationsOf(tool) ==
  IF tool = "add_custom_header_to_request"
  THEN {[addHeaders |-> a, removeHeaders |-> {}] :
          a \in {o \in HeaderObjects : Cardinality(DOMAIN o) = 1}}
  ELSE [addHeaders : HeaderObjects, removeHeaders : SUBSET HeaderNames]

InitHeaders ==
  /\ FetchAtRest
  /\ EngineAtRest
  /\ ConnAtRest
  /\ ListAtRest
  /\ NavAtRest
  /\ OvAtRest
  /\ TabsAtRest
  /\ ToolClientsAtRest
  /\ WorkflowAtRest
  /\ MatchAtRest
  /\ SessionAtRest
  /\ LocksAtRest
  /\ LastPartsAtRest
  /\ recording = FALSE
  /\ hTool \in {"add_custom_header_to_request", "intercept_and_modify_traffic"}
  /\ hOriginal \in HeaderObjects
  /\ hModifications \in ModificationsOf(hTool)
  /\ hForwarded = [sent |-> FALSE, headers |-> {}]

\* The callback's try block: build the headers and
\* Fetch.continueRequest({requestId, headers: headersArray}).
ContinueWithHeaders ==
  /\ hForwarded = [sent |-> FALSE, headers |-> {}]
  /\ hForwarded' = [sent |-> TRUE,
                    headers |-> headersArray(finalHeaders(hOriginal, hModifications))]
  /\ UNCHANGED <<hTool, hOriginal, hModifications>>
  /\ UNCHANGED nonHeaderVars

NextHeaders == ContinueWithHeaders

-----------------------------------------------------------------------------
(***************************************************************************)
(* Part 12.  manage_browser_session (smart-workflows.ts lines 780-865):    *)
(* export of a page's cookies and storages, and load of the exported       *)
(* sessionData into the page of a fresh profile.                           *)
(***************************************************************************)

AllStorageKeys == <<"k1", "k2", "k3">>

StorageKeys == {AllStorageKeys[n] : n \in 1..MaxKeys}

StorageValues == {"a", "b"}

\* Every content of a storage: a function from the keys it holds.
Storages == UNION {[S -> StorageValues] : S \in SUBSET StorageKeys}

Cookies == 1..MaxCookies

\* `localStorage = JSON.parse(JSON.stringify(localStorage) || '{}')` when the
\* include flag is set; the field stays undefined otherwise, and
\* JSON.stringify of the session drops an undefined field.
exportStorage(include, storage) ==
  IF include THEN [present |-> TRUE, items |-> storage]
  ELSE [present |-> FALSE, items |-> <<>>]

\* Runtime.evaluate of
\*   const data = {...}; Object.keys(data).forEach(key => storage.setItem(key, data[key]));
\* as a script of the page: a top-level `const data` that is declared
\* already is a SyntaxError, reported in the reply's exceptionDetails (which
\* the handler does not read), and nothing of the script runs.
evaluateSetItems(page, field, data) ==
  IF "data" \in page.declared
  THEN page
  ELSE [page EXCEPT ![field] = [k \in DOMAIN @ \cup DOMAIN data |->
                                  IF k \in DOMAIN data THEN data[k] ELSE @[k]],
                    !.declared = @ \cup {"data"}]

\* case 'load': Network.setCookie for each cookie, then one evaluate for
\* localStorage and one for sessionStorage, each when its include flag is
\* set and the session holds the field.
loadSession(page, session, includeLocalStorage, includeSessionStorage) ==
  LET p1 == [page EXCEPT !.cookies = @ \cup session.cookies]
      p2 == IF includeLocalStorage /\ session.localStorage.present
            THEN evaluateSetItems(p1, "localStorage", session.localStorage.items)
            ELSE p1
  IN IF includeSessionStorage /\ session.sessionStorage.present
     THEN evaluateSetItems(p2, "sessionStorage", session.sessionStorage.items)
     ELSE p2

InitSession ==
  /\ FetchAtRest
  /\ EngineAtRest
  /\ ConnAtRest
  /\ ListAtRest
  /\ NavAtRest
  /\ OvAtRest
  /\ TabsAtRest
  /\ ToolClientsAtRest
  /\ WorkflowAtRest
  /\ MatchAtRest
  /\ HeadersAtRest
  /\ LocksAtRest
  /\ LastPartsAtRest
  /\ recording = FALSE
  /\ sSource \in [cookies : SUBSET Cookies, localStorage : Storages,
                  sessionStorage : Storages, declared : {{}}]
  /\ sSessionData = NoSessionData
  /\ sTarget = EmptyPage
  /\ sLoaded = NoLoad

\* operation 'export' (or 'save') on the source page.
ExportSession(includeLocalStorage, includeSessionStorage) ==
  /\ ~sSessionData.exported
  /\ sSessionData' =
       [exported |-> TRUE, cookies |-> sSource.cookies,
        localStorage |-> exportStorage(includeLocalStorage, sSource.localStorage),
        sessionStorage |-> exportStorage(includeSessionStorage, sSource.sessionStorage)]
  /\ UNCHANGED <<sSource, sTarget, sLoaded>>
  /\ UNCHANGED nonSessionVars

\* operation 'load' with the exported sessionData on the fresh profile's page.
LoadSession(includeLocalStorage, includeSessionStorage) ==
  /\ sSessionData.exported
  /\ ~sLoaded.done
  /\ sTarget' = loadSession(sTarget, sSessionData, includeLocalStorage,
                            includeSessionStorage)
  /\ sLoaded' = [done |-> TRUE, includeLocalStorage |-> includeLocalStorage,
                 includeSessionStorage |-> includeSessionStorage]
  /\ UNCHANGED <<sSource, sSessionData>>
  /\ UNCHANGED nonSessionVars

NextSession ==
  \/ \E il \in BOOLEAN, is \in BOOLEAN : ExportSession(il, is)
  \/ \E il \in BOOLEAN, is \in BOOLEAN : LoadSession(il, is)

-----------------------------------------------------------------------------
(***************************************************************************)
(* Part 13.  The singleton lock files a killed browser leaves in a data    *)
(* directory, and what launchWithProfile (part_003 lines 236-289) does     *)
(* about them before it spawns.  "shadow" is the shadow copy's directory,  *)
(* "given" the caller's userDataDir or the platform's default one.         *)
(***************************************************************************)

lockFiles == {"SingletonLock", "SingletonSocket", "SingletonCookie"}

\* A lock file lies in the root of the data directory or inside the
\* profile subdirectory.
LockPlaces == [in : {"root", "profile"}, file : lockFiles]

\* createShadowProfile's last step: unlink every lock file from tempDir and
\* from profileDest.
createShadowProfile(locks) == [locks EXCEPT !["shadow"] = {}]

\* The directory passed as --user-data-dir: the shadow copy when the profile
\* is 'Default' and no userDataDir was given and the copy could be made;
\* otherwise the given (or default) directory, as it is.
finalUserDataDir(options, shadowOk) ==
  IF options.profileDirectory = "Default" /\ ~options.userDataDir /\ shadowOk
  THEN "shadow" ELSE "given"

\* const originalUserDataDir = userDataDir || platformPaths.userDataDir: the
\* caller's directory, or the live one of the user's own browser.
originalUserDataDir(options) == IF options.userDataDir THEN "custom" ELSE "live"

\* The value of the --user-data-dir argument.  When createShadowProfile throws
\* (its mkdirSync is outside every try), the catch block assigns
\* originalUserDataDir again.
userDataDirArg(options, shadowOk) ==
  IF finalUserDataDir(options, shadowOk) = "shadow"
  THEN "shadow" ELSE originalUserDataDir(options)

InitLocks ==
  /\ FetchAtRest
  /\ EngineAtRest
  /\ ConnAtRest
  /\ ListAtRest
  /\ NavAtRest
  /\ OvAtRest
  /\ TabsAtRest
  /\ ToolClientsAtRest
  /\ WorkflowAtRest
  /\ MatchAtRest
  /\ HeadersAtRest
  /\ SessionAtRest
  /\ LastPartsAtRest
  /\ recording = FALSE
  /\ lkLocks \in [{"shadow", "given"} -> SUBSET LockPlaces]
  /\ lkSpawn = NoSpawn

\* launchWithProfile from the options to spawn(executablePath, args).
LaunchSpawn(options, shadowOk) ==
  /\ ~lkSpawn.done
  /\ LET dir == finalUserDataDir(options, shadowOk)
         after == IF dir = "shadow" THEN createShadowProfile(lkLocks) ELSE lkLocks
     IN /\ lkLocks' = after
        /\ lkSpawn' = [done |-> TRUE, dataDir |-> dir, locks |-> after[dir],
                       arg |-> userDataDirArg(options, shadowOk),
                       options |-> options]
  /\ UNCHANGED nonLockVars

LaunchOptions == [userDataDir : BOOLEAN, profileDirectory : {"Default", "Profile 1"}]

NextLocks ==
  \E options \in LaunchOptions, shadowOk \in BOOLEAN : LaunchSpawn(options, shadowOk)

-----------------------------------------------------------------------------
(***************************************************************************)
(* Part 14.  The click tool (interaction.ts lines 20-66): an optional wait *)
(* for the selector, a pause, and a script that looks the element up again *)
(* and clicks it.  The page adds and removes the element on its own.       *)
(* waitFor and withTimeout are helpers of the repository whose file is not *)
(* among the sources; waitFor is taken as the poll the documentation names *)
(* ("wait-for-selector poll"): it evaluates the condition, answers true    *)
(* the first time the condition holds and false once the timeout is over.  *)
(***************************************************************************)

AfterWaitNoThrow(found) == "delay"

\* if (!found) throw new Error(`Selector not found: ...`)
AfterWait(found) == IF found THEN "delay" ELSE "throw"

InitClick ==
  /\ FetchAtRest
  /\ EngineAtRest
  /\ ConnAtRest
  /\ ListAtRest
  /\ NavAtRest
  /\ OvAtRest
  /\ TabsAtRest
  /\ LaterPartsAtRest
  /\ PcLogAtRest
  /\ JourneyAtRest
  /\ TestCookiesAtRest
  /\ LoadWaitAtRest
  /\ recording = FALSE
  /\ ckCall = NoClick
  /\ ckPresent \in BOOLEAN
  /\ ckObserved = FALSE
  /\ ckClicks = 0
  /\ ckResult = "none"

\* The page inserts or removes the element the selector names.
DomChange ==
  /\ ckPresent' = ~ckPresent
  /\ UNCHANGED <<ckCall, ckObserved, ckClicks, ckResult>>
  /\ UNCHANGED nonClickVars

\* The handler starts: verifyConnection, getTabClient, Runtime.enable,
\* DOM.enable, then the wait when waitForSelector is set.  The timeout is
\* counted in polls.
ClickCall(waitForSelector, timeout) ==
  /\ ckCall.pc = "idle"
  /\ ckCall' = [pc |-> IF waitForSelector THEN "wait" ELSE "delay",
                waitForSelector |-> waitForSelector, timeout |-> timeout,
                polls |-> 0]
  /\ ckObserved' = FALSE
  /\ ckClicks' = 0
  /\ ckResult' = "none"
  /\ UNCHANGED ckPresent
  /\ UNCHANGED nonClickVars

\* One poll of waitFor: Runtime.evaluate of querySelector(selector) !== null.
\* The wait ends with true at the first poll that sees the element and with
\* false after as many polls as the timeout allows that did not.
WaitForPoll ==
  /\ ckCall.pc = "wait"
  /\ LET over == ~ckPresent /\ ckCall.polls + 1 >= ckCall.timeout
         polls == IF ckPresent THEN ckCall.polls ELSE ckCall.polls + 1
     IN IF ~ckPresent /\ ~over
        THEN /\ ckCall' = [ckCall EXCEPT !.polls = polls]
             /\ UNCHANGED <<ckObserved, ckResult>>
        ELSE /\ ckObserved' = ckPresent
             /\ IF AfterWait(ckPresent) = "throw"
                THEN /\ ckCall' = [ckCall EXCEPT !.pc = "idle", !.polls = polls]
                     /\ ckResult' = "selector-not-found"
                ELSE /\ ckCall' = [ckCall EXCEPT !.pc = "delay", !.polls = polls]
                     /\ UNCHANGED ckResult
  /\ UNCHANGED <<ckPresent, ckClicks>>
  /\ UNCHANGED nonClickVars

\* After humanDelay: the click script, under withTimeout.  The script clicks
\* the element it finds now; when it finds none its throw stays in the page
\* (Runtime.evaluate resolves with exceptionDetails) and the handler goes on
\* to success.  When the timeout wins, the script may or may not have run.
ClickEvaluate(timedOut, ran) ==
  /\ ckCall.pc = "delay"
  /\ timedOut \/ ran
  /\ ckClicks' = IF ran /\ ckPresent THEN ckClicks + 1 ELSE ckClicks
  /\ ckResult' = IF timedOut THEN "click-timed-out" ELSE "success"
  /\ ckCall' = [ckCall EXCEPT !.pc = "idle"]
  /\ UNCHANGED <<ckPresent, ckObserved>>
  /\ UNCHANGED nonClickVars

NextClick ==
  \/ DomChange
  \/ \E waitForSelector \in BOOLEAN, timeout \in 1..MaxPolls :
       ClickCall(waitForSelector, timeout)
  \/ WaitForPoll
  \/ \E timedOut \in BOOLEAN, ran \in BOOLEAN : ClickEvaluate(timedOut, ran)

-----------------------------------------------------------------------------
(***************************************************************************)
(* Part 15.  getPersistentClient and closePersistentClient called one      *)
(* after the other (chrome-connector.ts lines 701-747), with what each     *)
(* call found and did kept in pcLast.                                      *)
(***************************************************************************)

deleteUnlessThrew(map, key, threw) ==
  IF threw THEN map ELSE {e \in map : e.key # key}

\* this.persistentClients.delete(effectiveTabId), after the try/catch around
\* client.close().
delete(map, key, threw) == {e \in map : e.key # key}

get(map, key) == (CHOOSE e \in map : e.key = key).client

InitPcTable == InitTabClient

\* getPersistentClient(tabId) when the key is in the table: the stored
\* client is returned before any await.
PcHit(tabId) ==
  /\ tPending[1].pc = "idle"
  /\ has(tPersistent, tabId)
  /\ pcLast' = [op |-> "get", key |-> tabId, had |-> TRUE,
                client |-> get(tPersistent, tabId), opened |-> FALSE,
                threw |-> FALSE, hasAfter |-> TRUE, same |-> TRUE]
  /\ UNCHANGED tabVars
  /\ UNCHANGED nonPcVars

\* getPersistentClient(tabId) when the key is not in the table, up to the
\* await of CDP(...).
PcMiss(tabId) ==
  /\ ~has(tPersistent, tabId)
  /\ PcStart(1, tabId)

\* The CDP(...) of a miss resolved or threw; the call returns.
PcMissReturn ==
  /\ tPending[1].pc = "cdp"
  /\ \E free \in ClientIds : free \notin {o.client : o \in tOpen}
  /\ LET key == tPending[1].key
         ok == CDP(tTargets, tPending[1].target) # 0
         c == CHOOSE free \in ClientIds : free \notin {o.client : o \in tOpen}
     IN /\ tPending' = [tPending EXCEPT ![1] = NoPending]
        /\ tOpen' = IF ok THEN tOpen \cup {[client |-> c, target |-> tPending[1].target]}
                    ELSE tOpen
        /\ tPersistent' = IF ok THEN set(tPersistent, key, c) ELSE tPersistent
        /\ pcLast' = [op |-> "get", key |-> key, had |-> FALSE,
                      client |-> IF ok THEN c ELSE 0, opened |-> ok,
                      threw |-> ~ok, hasAfter |-> ok, same |-> ~ok]
  /\ UNCHANGED <<tabEnvVars, tabClientVars>>
  /\ UNCHANGED nonPcVars

\* closePersistentClient(tabId), whole: nothing when the key is not in the
\* table; otherwise client.close(), whose failure is caught and logged, and
\* the delete.  A close that threw may have left the channel open.
PcClose(tabId, threw, stays) ==
  /\ tPending[1].pc = "idle"
  /\ threw \/ ~stays
  /\ LET had == has(tPersistent, tabId)
         after == IF had THEN delete(tPersistent, tabId, threw) ELSE tPersistent
         open == IF had /\ ~stays
                 THEN {o \in tOpen : o.client # get(tPersistent, tabId)} ELSE tOpen
     IN /\ had \/ (~threw /\ ~stays)
        /\ tPersistent' = after
        /\ tOpen' = open
        /\ pcLast' = [op |-> "close", key |-> tabId, had |-> had, client |-> 0,
                      opened |-> FALSE, threw |-> threw,
                      hasAfter |-> has(after, tabId),
                      same |-> (after = tPersistent /\ open = tOpen)]
  /\ UNCHANGED <<tabEnvVars, tabClientVars, tPending>>
  /\ UNCHANGED nonPcVars

NextPcTable ==
  \/ \E id \in TabIds : activateTab(id)
  \/ \E tabId \in 0..MaxTabs : PcHit(tabId)
  \/ \E tabId \in 0..MaxTabs : PcMiss(tabId)
  \/ PcMissReturn
  \/ \E tabId \in 0..MaxTabs, threw \in BOOLEAN, stays \in BOOLEAN :
       PcClose(tabId, threw, stays)

-----------------------------------------------------------------------------
(***************************************************************************)
(* Part 16.  simulate_user_journey (smart-workflows.ts lines 547-651): the *)
(* for loop over the steps, each step in its own try, and the results      *)
(* array.  Whether a step's protocol commands are accepted is the          *)
(* browser's answer.                                                       *)
(***************************************************************************)

StepActions == {"click", "navigate", "screenshot"}

StepLists == UNION {[1..n -> StepActions] : n \in 0..MaxSteps}

breakNever(failed, stopOnError) == FALSE

\* `if (stopOnError) break;` at the end of the catch block.
break(failed, stopOnError) == failed /\ stopOnError

InitJourney ==
  /\ FetchAtRest
  /\ EngineAtRest
  /\ ConnAtRest
  /\ ListAtRest
  /\ NavAtRest
  /\ OvAtRest
  /\ TabsAtRest
  /\ LaterPartsAtRest
  /\ ClickAtRest
  /\ PcLogAtRest
  /\ TestCookiesAtRest
  /\ LoadWaitAtRest
  /\ recording = FALSE
  /\ jArgs \in [steps : StepLists, stopOnError : BOOLEAN,
                 captureScreenshots : BOOLEAN]
  /\ jPc = "idle"
  /\ jI = 1
  /\ jExecuted = <<>>
  /\ jResults = <<>>

\* The handler up to the loop: verifyConnection, getTabClient,
\* Runtime.enable, Page.enable; a throw there returns {success:false}.
JourneyCall(ok) ==
  /\ jPc = "idle"
  /\ jPc' = IF ok THEN "loop" ELSE "returned"
  /\ UNCHANGED <<jArgs, jI, jExecuted, jResults>>
  /\ UNCHANGED nonJourneyVars

\* One pass of the loop body: the step's commands, the screenshot after it
\* when captureScreenshots is set, and results.push, in the try or in the
\* catch.
JourneyStep(stepFails, shotFails) ==
  /\ jPc = "loop"
  /\ jI <= Len(jArgs.steps)
  /\ LET action == jArgs.steps[jI]
         shot == jArgs.captureScreenshots /\ action # "screenshot"
         failed == stepFails \/ (shot /\ shotFails)
     IN /\ (shotFails => shot /\ ~stepFails)
        /\ jExecuted' = Append(jExecuted, jI)
        /\ jResults' = Append(jResults, [step |-> jI, action |-> action,
                                         success |-> ~failed])
        /\ IF break(failed, jArgs.stopOnError)
           THEN jPc' = "returned" /\ UNCHANGED jI
           ELSE jPc' = "loop" /\ jI' = jI + 1
  /\ UNCHANGED jArgs
  /\ UNCHANGED nonJourneyVars

\* The loop condition fails: return {success:true, results, ...}.
JourneyReturn ==
  /\ jPc = "loop"
  /\ jI > Len(jArgs.steps)
  /\ jPc' = "returned"
  /\ UNCHANGED <<jArgs, jI, jExecuted, jResults>>
  /\ UNCHANGED nonJourneyVars

NextJourney ==
  \/ \E ok \in BOOLEAN : JourneyCall(ok)
  \/ \E stepFails \in BOOLEAN, shotFails \in BOOLEAN : JourneyStep(stepFails, shotFails)
  \/ JourneyReturn

-----------------------------------------------------------------------------
(***************************************************************************)
(* Part 17.  test_with_different_cookies (smart-workflows.ts lines         *)
(* 905-989).  The browser's cookies are a function from cookie names to    *)
(* values, all of one domain; a protocol command may be refused.           *)
(***************************************************************************)

\* Every cookie jar: a function from the names it holds to their values.
Jars == UNION {[S -> StorageValues] : S \in SUBSET Cookies}

\* The `cookies` argument: up to MaxCookies cookies with the test value.
TestCookieLists == UNION {[1..n -> Cookies] : n \in 0..MaxCookies}

\* Network.setCookie({name, value, ...}).
setCookie(jar, name, value) ==
  [c \in DOMAIN jar \cup {name} |-> IF c = name THEN value ELSE jar[c]]

InitTestCookies ==
  /\ FetchAtRest
  /\ EngineAtRest
  /\ ConnAtRest
  /\ ListAtRest
  /\ NavAtRest
  /\ OvAtRest
  /\ TabsAtRest
  /\ LaterPartsAtRest
  /\ ClickAtRest
  /\ PcLogAtRest
  /\ JourneyAtRest
  /\ LoadWaitAtRest
  /\ recording = FALSE
  /\ tcArgs \in [cookies : TestCookieLists, restoreOriginal : BOOLEAN]
  /\ tcPc = "idle"
  /\ tcI = 1
  /\ tcJar \in Jars
  /\ tcOriginal = <<>>
  /\ tcBefore = <<>>
  /\ tcResult = "none"

\* verifyConnection ... Runtime.enable, then "Step 1": originalCookies is the
\* answer of Network.getCookies when restoreOriginal is set.  A throw goes to
\* the catch, which returns {success:false}.
TcStart(ok) ==
  /\ tcPc = "idle"
  /\ tcBefore' = tcJar
  /\ IF ok
     THEN /\ tcOriginal' = IF tcArgs.restoreOriginal THEN tcJar ELSE <<>>
          /\ tcPc' = "set"
          /\ UNCHANGED tcResult
     ELSE /\ tcPc' = "returned"
          /\ tcResult' = "fail"
          /\ UNCHANGED tcOriginal
  /\ UNCHANGED <<tcArgs, tcI, tcJar>>
  /\ UNCHANGED nonTestCookieVars

\* "Step 2": one Network.setCookie of the loop over the test cookies.
TcSetCookie(ok) ==
  /\ tcPc = "set"
  /\ tcI <= Len(tcArgs.cookies)
  /\ IF ok
     THEN /\ tcJar' = setCookie(tcJar, tcArgs.cookies[tcI], "test")
          /\ tcI' = tcI + 1
          /\ UNCHANGED <<tcPc, tcResult>>
     ELSE /\ tcPc' = "returned"
          /\ tcResult' = "fail"
          /\ UNCHANGED <<tcJar, tcI>>
  /\ UNCHANGED <<tcArgs, tcOriginal, tcBefore>>
  /\ UNCHANGED nonTestCookieVars

\* "Step 3" and "Step 4": Page.navigate, Page.loadEventFired, the content.
TcNavigate(ok) ==
  /\ tcPc = "set"
  /\ tcI > Len(tcArgs.cookies)
  /\ tcPc' = IF ok THEN "restore" ELSE "returned"
  /\ tcResult' = IF ok THEN tcResult ELSE "fail"
  /\ UNCHANGED <<tcArgs, tcI, tcJar, tcOriginal, tcBefore>>
  /\ UNCHANGED nonTestCookieVars

\* "Step 5" when restoreOriginal is set: delete every current cookie, set
\* every original one; then return {success:true}.
TcRestore ==
  /\ tcPc = "restore"
  /\ tcJar' = IF tcArgs.restoreOriginal THEN tcOriginal ELSE tcJar
  /\ tcPc' = "returned"
  /\ tcResult' = "ok"
  /\ UNCHANGED <<tcArgs, tcI, tcOriginal, tcBefore>>
  /\ UNCHANGED nonTestCookieVars

NextTestCookies ==
  \/ \E ok \in BOOLEAN : TcStart(ok)
  \/ \E ok \in BOOLEAN : TcSetCookie(ok)
  \/ \E ok \in BOOLEAN : TcNavigate(ok)
  \/ TcRestore

-----------------------------------------------------------------------------
(***************************************************************************)
(* Part 18.  The order of "subscribe to the load event" and "send the      *)
(* command that starts the load" in browser_action navigate and reload     *)
(* (part_002 lines 121-203) and in the navigate steps of the smart         *)
(* workflows (smart-workflows.ts lines 222-226, 380-383).  An event that   *)
(* arrives while no wait is registered is not kept for a later wait.       *)
(***************************************************************************)

LoadTools == {"browser_action navigate", "browser_action reload",
              "intercept_and_modify_traffic", "navigate_and_extract_content"}

WaitUntils == {"load", "domcontentloaded", "networkidle"}

\* withTimeout(...) wraps the wait in browser_action only.
HasTimeout(tool) == tool \in {"browser_action navigate", "browser_action reload"}

\* browser_action navigate builds loadPromise (for each waitUntil) before
\* `await Page.navigate`; the other three call Page.loadEventFired() after
\* the command's await.
SubscribesFirst(tool) == tool = "browser_action navigate"

InitLoadWait ==
  /\ FetchAtRest
  /\ EngineAtRest
  /\ ConnAtRest
  /\ ListAtRest
  /\ NavAtRest
  /\ OvAtRest
  /\ TabsAtRest
  /\ LaterPartsAtRest
  /\ ClickAtRest
  /\ PcLogAtRest
  /\ JourneyAtRest
  /\ TestCookiesAtRest
  /\ recording = FALSE
  /\ leCall = NoLoadCall
  /\ leSubscribed = FALSE
  /\ leTriggered = FALSE
  /\ leEvent = "none"
  /\ leResult = "none"

\* The handler up to the command: in browser_action navigate the wait is
\* registered here.
LoadCall(tool, waitUntil, timeout) ==
  /\ leCall.pc = "idle"
  /\ (tool # "browser_action navigate" => waitUntil = "load")
  /\ (~HasTimeout(tool) => timeout = 1)
  /\ leCall' = [tool |-> tool, waitUntil |-> waitUntil, pc |-> "send",
                timer |-> timeout]
  /\ leSubscribed' = SubscribesFirst(tool)
  /\ leTriggered' = FALSE
  /\ leEvent' = "none"
  /\ leResult' = "none"
  /\ UNCHANGED nonLoadWaitVars

\* Page.navigate / Page.reload goes out; the handler is suspended on its
\* answer.
SendCommand ==
  /\ leCall.pc = "send"
  /\ leCall' = [leCall EXCEPT !.pc = "sent"]
  /\ leTriggered' = TRUE
  /\ UNCHANGED <<leSubscribed, leEvent, leResult>>
  /\ UNCHANGED nonLoadWaitVars

\* The browser sends the event of the load the command started: a
\* registered wait sees it, otherwise it goes by unseen.
LoadEvent ==
  /\ leTriggered
  /\ leEvent = "none"
  /\ leCall.pc \in {"sent", "wait"}
  /\ leEvent' = IF leSubscribed THEN "seen" ELSE "lost"
  /\ UNCHANGED <<leCall, leSubscribed, leTriggered, leResult>>
  /\ UNCHANGED nonLoadWaitVars

\* The command's answer resumes the handler (a refusal throws), which now
\* registers its wait if it has not yet.
CommandAnswered(ok) ==
  /\ leCall.pc = "sent"
  /\ IF ok
     THEN /\ leCall' = [leCall EXCEPT !.pc = "wait"]
          /\ leSubscribed' = TRUE
          /\ UNCHANGED leResult
     ELSE /\ leCall' = [leCall EXCEPT !.pc = "idle"]
          /\ leResult' = "fail"
          /\ UNCHANGED leSubscribed
  /\ UNCHANGED <<leTriggered, leEvent>>
  /\ UNCHANGED nonLoadWaitVars

\* Time passes for the timer of the wait.
LoadTick ==
  /\ leCall.pc = "wait"
  /\ leCall.timer > 0
  /\ leCall' = [leCall EXCEPT !.timer = @ - 1]
  /\ UNCHANGED <<leSubscribed, leTriggered, leEvent, leResult>>
  /\ UNCHANGED nonLoadWaitVars

\* The wait is over: the event was seen (in browser_action navigate with
\* 'networkidle' the wait's own timer also ends it), or withTimeout fired.
WaitOver(timedOut) ==
  /\ leCall.pc = "wait"
  /\ IF timedOut THEN HasTimeout(leCall.tool) /\ leCall.timer = 0
     ELSE leEvent = "seen"
  /\ leCall' = [leCall EXCEPT !.pc = "idle"]
  /\ leResult' = IF timedOut /\ leCall.waitUntil # "networkidle" THEN "timeout" ELSE "ok"
  /\ UNCHANGED <<leSubscribed, leTriggered, leEvent>>
  /\ UNCHANGED nonLoadWaitVars

NextLoadWait ==
  \/ \E tool \in LoadTools, waitUntil \in WaitUntils, timeout \in 1..MaxTimeout :
       LoadCall(tool, waitUntil, timeout)
  \/ SendCommand
  \/ LoadTick
  \/ LoadEvent
  \/ \E ok \in BOOLEAN : CommandAnswered(ok)
  \/ \E timedOut \in BOOLEAN : WaitOver(timedOut)

vars == <<fetchVars, engineVars, connVars, listVars, auxVars>>

SpecFetch == InitFetch /\ [][NextFetch]_vars

\* The protocol messages and the dispatcher, with nothing changing outside
\* the server.
\* A call-tool request from its arrival to its result, in a world that does
\* not change.
NextCall ==
  \/ \E name \in AllToolNames : CallTool(name)
  \/ \E args \in {"valid", "invalid"} : Validate(args)
  \/ HGetBrowserStatus
  \/ HCloseBrowser
  \/ HLaunch
  \/ HManageTabs
  \/ ActivateTab
  \/ GetPersistentClient
  \/ EcStart
  \/ EcProbe
  \/ EcConnect
  \/ EcSettle
  \/ LwStart
  \/ LwProbe
  \/ LwAttach
  \/ LwForeground
  \/ LwSpawn
  \/ LwWait
  \/ LwConnect
  \/ LwPost

NextList ==
  \/ Initialize
  \/ Initialized
  \/ ListTools
  \/ \E on \in BOOLEAN : HSetAdvancedTools(on)
  \/ NextCall

SpecList == InitList /\ [][NextList]_vars

\* launchWithProfile called as a method of the connector, with or without
\* the force option (which only the part_003 copy declares).
LaunchWithProfile(force) ==
  /\ serverUp
  /\ call.pc = "idle"
  /\ force => variant = P3
  /\ call' = [NoCall EXCEPT !.tool = "launchWithProfile", !.pc = "lw_start",
                            !.lwRet = "handler", !.force = force,
                            !.ctx = "launchWithProfile", !.reached = TRUE]
  /\ UNCHANGED <<envVars, connectorVars, serverUp>>
  /\ UNCHANGED nonConnVars

\* The dispatcher and the connector with pages opened and closed by the user
\* in between, and launchWithProfile called directly (which is how part_003
\* gets to its process check after a spawn).
NextLaunch ==
  \/ NextCall
  \/ LwPs
  \/ \E tg \in 0..MaxTargets : TargetsChange(tg)
  \/ \E force \in BOOLEAN : LaunchWithProfile(force)

SpecLaunch == Init /\ [][NextLaunch]_vars

Spec == Init /\ [][Next]_vars

\* The event loop runs every continuation that is ready and every timer that
\* is due; the browser owes the server no event.
HandlerFairness ==
  /\ WF_vars(\E ok \in BOOLEAN : PageNavigate(ok))
  /\ WF_vars(AwaitLoad)
  /\ WF_vars(WaitSelector(FALSE))
  /\ WF_vars(NavReturn)
  /\ WF_vars(Tick)

SpecTabClient == InitTabClient /\ [][NextTabClient]_vars

SpecPersistent == InitPersistent /\ [][NextPersistent]_vars

SpecClients == InitClients /\ [][NextClients]_vars

SpecWorkflow == InitWorkflow /\ [][NextWorkflow]_vars

SpecMatch == InitMatch /\ [][NextMatch]_vars

SpecHeaders == InitHeaders /\ [][NextHeaders]_vars

SpecSession == InitSession /\ [][NextSession]_vars

SpecLocks == InitLocks /\ [][NextLocks]_vars

SpecClick == InitClick /\ [][NextClick]_vars

SpecPcTable == InitPcTable /\ [][NextPcTable]_vars

SpecJourney == InitJourney /\ [][NextJourney]_vars

SpecTestCookies == InitTestCookies /\ [][NextTestCookies]_vars

SpecLoadWait == InitLoadWait /\ [][NextLoadWait]_vars

SpecOverlap == InitOverlap /\ [][NextOverlap]_vars

SpecNavigate == InitNavigate /\ [][NextNavigate]_vars /\ HandlerFairness

\* The tool's own event handler runs whenever it is enabled (the event loop
\* delivers the event); nothing obliges the caller to act.
SpecEngine ==
  /\ InitEngine
  /\ [][NextEngine]_vars
  /\ \A r \in ResponseIds : WF_vars(AutoContinueResponse(r))

-----------------------------------------------------------------------------
(* Claims *)

C2_EveryPausedEventuallyDisposed ==
  \A r \in ResponseIds :
    (respState[r] = "paused") ~> (respState[r] \in {"resumed", "modified"})

\* C3 (as stated): the call-tool dispatcher never lets an exception escape; for
\* every tool name, also one that is not in the tool table, the request ends
\* in a structured result or a structured error.
C3_NoExceptionEscapes == call.result # "thrown"

\* C4 (as stated): ensureConnected never spawns a browser process; a process
\* is spawned only while an explicit launch tool's handler runs.
C4_EnsureConnectedNeverSpawns ==
  \A p \in Pids : proc[p].st # "unused" => proc[p].by # "ensureConnected"

\* C5 (as stated, for the connect retry loop of part_003): when the loop after
\* the spawn has connected, the connection is to a real browser, never to an
\* endpoint that identifies itself as a WebView.
C5_RetryLoopConnectsOnlyToBrowser ==
  (variant = P3 /\ call.pc = "lw_post") => connection # "webview"

\* C6: every kill signal sent to a browser process was sent by killChrome
\* while the close_browser tool ran; disconnect, handleProcessDeath,
\* ensureConnected, verifyConnection, a failed or forced launch and the
\* SIGINT/SIGTERM shutdown send none.
C6_OnlyCloseBrowserKills ==
  \A x \in kills : x.by = "killChrome" /\ x.tool = "close_browser"

\* C6 witness: close_browser killed the spawned browser, and the server has
\* also been through a launch by then.
C6_Witness ==
  \E x \in kills :
    /\ x.by = "killChrome"
    /\ proc[x.pid].st = "exited"
    /\ chromeProcess = 0
    /\ connection = "null"

\* C7 (as stated, for the spawn of launchWithProfile in part_003): at every
\* moment at most one browser process spawned by launchWithProfile is alive.
C7_AtMostOneSpawnedAlive ==
  variant = P3 => Cardinality({p \in Alive : proc[p].tracked}) <= 1

\* C8 (as stated): when the 'exit' listener of a spawned process runs while
\* the debugging port still answers (and lists a target), only the process
\* handle is set to null;
\* the connection, the current tab and the persistent clients are unchanged.
C8_ExitWithPortAliveKeepsConnection ==
  [][\A p \in Pids :
       (/\ p \in exitEvents /\ p \notin exitEvents' /\ serverUp'
        /\ ListAnswers(port) /\ targets > 0)
       => /\ connection' = connection
          /\ currentTabId' = currentTabId
          /\ persistentClients' = persistentClients
          /\ chromeProcess' = 0]_vars

\* C9 (as stated): a step of the running server that takes the connector from
\* connected to disconnected leaves the persistent-client table empty, the current tab id
\* null, the process handle null, the Playwright context null and the
\* stealth-applied flag false.
C9_DisconnectClearsDownstream ==
  [][(connection # "null" /\ connection' = "null" /\ serverUp')
     => /\ persistentClients' = {}
        /\ currentTabId' = 0
        /\ chromeProcess' = 0
        /\ browserContext' = FALSE
        /\ stealthApplied' = FALSE]_vars

\* C10 (as stated, for part_003): a launch-tool request with valid arguments
\* that starts with no connection and a free debugging port reaches the
\* launch handler.
C10_ColdLaunchReachesHandler ==
  (variant = P3 /\ call.pc = "idle" /\ call.coldLaunch
     /\ call.result \notin {"none", "invalid_args"})
  => call.reached

\* C11: a step that receives initialize, tools/list or
\* notifications/initialized starts no ensureConnected and no
\* launchWithProfile, spawns and kills nothing and leaves the connector as it
\* is; only a call-tool request moves the dispatcher and the connector.
C11_ProtocolMessagesDoNoConnectionWork ==
  [][(messages' # messages \/ listed' # listed)
     => UNCHANGED <<connectorVars, proc, kills, call>>]_vars

\* C11 witness: the whole handshake was received, the tools were listed, and
\* the server has neither connected nor spawned anything nor started a call.
C11_Witness ==
  /\ messages = {"initialize", "tools/list", "notifications/initialized"}
  /\ listed # {}
  /\ call = NoCall
  /\ connection = "null"
  /\ \A p \in Pids : proc[p].st = "unused"

\* C12: for get_browser_status, show_advanced_tools, hide_advanced_tools and
\* close_browser the dispatcher never invokes ensureConnected (such a call
\* goes from idle straight to argument validation); for every other tool the
\* arguments are validated and the handler is started only after the
\* dispatcher's ensureConnected returned; and a
\* dispatcher's ensureConnected ends the call exactly when it failed, with
\* the structured error carrying the hint and the handler never started.
C12_EnsureConnectedBeforeHandlerExceptAllowList ==
  [][LET AllowList == {"get_browser_status", "show_advanced_tools",
                       "hide_advanced_tools", "close_browser"}
         InEc == /\ call.ret = "dispatcher"
                 /\ ~call.reached
                 /\ call.pc \notin {"idle", "validate", "handler"}
     IN /\ call'.tool \in AllowList => call'.ret # "dispatcher"
        /\ (call'.pc = "validate" /\ call.pc # "validate")
             => IF call'.tool \in AllowList
                THEN call.pc = "idle"
                ELSE InEc
        /\ (call'.pc = "handler" /\ call.pc # "handler")
             => call.pc = "validate"
        /\ (InEc /\ call'.pc = "idle" /\ serverUp')
             => call'.result = "hint_error" /\ ~call'.reached
        /\ (call'.result = "hint_error" /\ call.pc # "idle")
             => InEc /\ call'.tool \notin AllowList]_vars

\* C12 witness: a manage_tabs call ended with the hint error and its handler
\* never ran, while the connector is still not connected.
C12_Witness ==
  /\ call.tool = "manage_tabs"
  /\ call.pc = "idle"
  /\ call.result = "hint_error"
  /\ ~call.reached
  /\ connection = "null"

\* C13: a tool call rejected for invalid arguments changes no state: when the
\* arguments are refused, the connection, the process handle, the current
\* tab, the persistent clients, the stealth flag and the tool-visibility flag
\* are what they were when the request arrived.
C13_InvalidArgsChangeNothing ==
  [][(call.pc = "validate" /\ call'.pc = "idle" /\ call'.result = "invalid_args")
     => call.snap = Snap]_vars

\* C14: every tool invocation eventually returns, also when the CDP event it
\* waits for never arrives: a pending call does not stay pending forever.
C14_EveryCallEventuallyReturns == (navPc # "idle") ~> (navPc = "idle")

\* C15: at most one tool invocation executes at any time, so two overlapping
\* call-tool requests never both open a root CDP client: with a port that
\* does not change, at most one root client is ever open.
C15_OverlappingCallsOpenOneRootClient == Cardinality(ovClients) <= 1

C18_ZeroTargetsKeepsConnection ==
  [][(call.pc = "ec_start" /\ call' # call /\ serverUp' /\ connection # "null")
     => /\ (ListAnswers(port) /\ targets = 0)
             => /\ connection' = connection
                /\ targets' > 0
                /\ call'.pc \in {"validate", "body"}
        /\ connection' = "null" => ~ListAnswers(port)]_vars

\* C19: getTabClient resolves its target in this order: the explicit id when
\* it names an existing page target; otherwise the most recently activated
\* page; otherwise the first page in enumeration order; and the client it
\* returns is never on a service worker, a background page or any other
\* target that is not a page.
C19_TabClientIsAPage ==
  [][tResult' # tResult
     => LET r == tResult'.target
            a == tResult'.tabId
            IsPage(id) == KindOf(tTargets, id) = "page"
            Pages == SelectSeq(tTargets, LAMBDA t : t.type = "page")
        IN /\ r # 0 => IsPage(r)
           /\ (a # 0 /\ IsPage(a)) => r = a
           /\ (a = 0 /\ IsPage(tCurrentTabId)) => r = tCurrentTabId
           /\ (a = 0 /\ tCurrentTabId = 0 /\ Len(Pages) > 0) => r = Pages[1].id]_vars

\* C20: after any sequence and interleaving of getPersistentClient and
\* closePersistentClient calls, with explicit ids and with the 'default'
\* key, no target has more than one persistent client open on it.
C20_OnePersistentClientPerTarget ==
  \A o1 \in tOpen, o2 \in tOpen : o1.target = o2.target => o1 = o2

\* C21: every CDP client the connector opens is closed on every exit path:
\* once the tool call that took a tab client has returned or failed that
\* client is closed, and a persistent client that is open is still in the
\* table (no entry is dropped without its channel being closed).
C21_NoClientOutlivesItsOwner ==
  /\ tToolCall.pc = "idle" => tTabClients = {}
  /\ \A o \in tOpen : \E e \in tPersistent : e.client = o.client

\* C22: once add_custom_header_to_request, intercept_and_modify_traffic or
\* capture_network_on_action has returned, with a result or with an error
\* raised after Fetch.enable, the Fetch domain is disabled again.
C22_FetchDisabledAfterReturn ==
  wfPc = "returned" => ~fetchEnabled

\* C23: close_browser shuts down in order: every paused request is resumed,
\* then every persistent client is closed, and only then is the browser
\* process killed; so the step that sends the kill signal starts with no
\* request paused, no persistent client open and the table empty.
C23_KillComesLast ==
  [][(~tKilled /\ tKilled') => (tPaused = 0 /\ tOpen = {} /\ tPersistent = {})]_vars

C27_ForwardedHeaders ==
  hForwarded.sent =>
    LET add == hModifications.addHeaders
        remove == hModifications.removeHeaders
    IN /\ \A n \in DOMAIN hOriginal \ (DOMAIN add \cup remove) :
            [name |-> n, value |-> hOriginal[n]] \in hForwarded.headers
       /\ \A n \in DOMAIN add \ remove :
            [name |-> n, value |-> add[n]] \in hForwarded.headers
       /\ \A e \in hForwarded.headers :
            /\ e.name \in (DOMAIN hOriginal \cup DOMAIN add) \ remove
            /\ \A f \in hForwarded.headers : f.name = e.name => f = e

\* C27 witness: Cookie kept, X-Test overridden by addHeaders, both forwarded.
C27_Witness ==
  /\ hForwarded.sent
  /\ "Cookie" \in DOMAIN hOriginal /\ "X-Test" \in DOMAIN hOriginal
  /\ "X-Test" \in DOMAIN hModifications.addHeaders
  /\ hModifications.addHeaders["X-Test"] # hOriginal["X-Test"]
  /\ "Cookie" \notin DOMAIN hModifications.addHeaders
  /\ hModifications.removeHeaders = {}
  /\ [name |-> "Cookie", value |-> hOriginal["Cookie"]] \in hForwarded.headers
  /\ [name |-> "X-Test", value |-> hModifications.addHeaders["X-Test"]] \in hForwarded.headers

\* C28: manage_browser_session round trip: after the sessionData of an
\* export (storages included) was loaded into a fresh profile (storages
\* included), the profile's page has the same cookies, localStorage and
\* sessionStorage as the exported page.
C28_SessionRoundTrip ==
  (/\ sLoaded.done /\ sLoaded.includeLocalStorage /\ sLoaded.includeSessionStorage
   /\ sSessionData.localStorage.present /\ sSessionData.sessionStorage.present)
    => /\ sTarget.cookies = sSource.cookies
       /\ sTarget.localStorage = sSource.localStorage
       /\ sTarget.sessionStorage = sSource.sessionStorage

\* C29: the stealth script is applied once per connection.  In part_003 a
\* step that makes the connector connected (the connect of ensureConnected,
\* the end of launchWithProfile) registers the script on the new connection,
\* which is what takes the stealthApplied guard from false to true; no other
\* step of a non-forced applyStealthMode registers it.
C29_StealthOncePerConnection ==
  [][variant = P3 =>
       LET registers == ~stealthApplied /\ stealthApplied'
           connects == \/ call.pc = "ec_connect" /\ connection = "null"
                          /\ connection' # "null"
                       \/ call.pc = "lw_post" /\ call'.pc # "lw_post"
       IN registers <=> connects]_vars

\* C30: before every spawn the three singleton lock files are absent from
\* the root of the data directory and from its profile subdirectory, for
\* the shadow profile and for a caller-supplied data directory or a
\* non-default profile alike.
C30_NoLockAtSpawn ==
  lkSpawn.done => lkSpawn.locks = {}

\* C31: the data directory passed to the spawned browser is the caller's
\* userDataDir when one was given, and when the default profile is requested
\* with no custom directory it is the shadow clone, never the user's live
\* profile directory, also when building the clone failed.
C31_DataDirPassed ==
  lkSpawn.done =>
    /\ (lkSpawn.options.userDataDir => lkSpawn.arg = "custom")
    /\ (lkSpawn.options.profileDirectory = "Default" /\ ~lkSpawn.options.userDataDir
          => lkSpawn.arg = "shadow")

\* C32: when launchWithProfile fails after it spawned (the process exited
\* early, or no connect attempt succeeded), it leaves no instance behind:
\* connection is null and the process handle is null.
C32_FailedLaunchLeavesNoInstance ==
  [][(/\ call.pc \in {"lw_wait", "lw_ps", "lw_connect"}
      /\ call'.pc \notin {"lw_wait", "lw_ps", "lw_connect", "lw_post"})
     => (connection' = "null" /\ chromeProcess' = 0)]_vars

\* C33: click with waitForSelector: when the selector did not match within
\* the timeout the tool returns the selector-not-found error and no click is
\* dispatched; a click is dispatched only after the wait saw the selector
\* present.
C33_ClickOnlyAfterSelectorSeen ==
  /\ (ckResult = "selector-not-found" => ckClicks = 0)
  /\ (ckCall.waitForSelector /\ ckClicks > 0 => ckObserved)
  /\ (ckCall.waitForSelector /\ ckCall.pc # "wait" /\ ~ckObserved /\ ckCall.polls > 0
        => ckResult = "selector-not-found" /\ ckCall.pc = "idle")

\* The wait ran out of polls, and the element turned up afterwards.
C33_Witness ==
  /\ ckResult = "selector-not-found"
  /\ ckCall.polls = ckCall.timeout
  /\ ckCall.timeout > 1
  /\ ckPresent

\* C34: the exit listener of a process that is no longer the connector's
\* process (close_browser, disconnect or a forced launch replaced it) leaves
\* the later instance alone: the process handle and the connection stay as
\* they are.
C34_StaleExitChangesNothing ==
  [][\A p \in Pids :
       (p \in exitEvents /\ p \notin exitEvents' /\ serverUp' /\ chromeProcess # p)
         => (chromeProcess' = chromeProcess /\ connection' = connection)]_vars

\* C35: getPersistentClient for a key that is in the table returns the
\* stored client and opens no channel; closePersistentClient removes the
\* entry also when closing the channel throws, and for a key that is not in
\* the table it changes nothing.
C35_PersistentGetAndCloseIdempotent ==
  /\ (pcLast.op = "get" /\ pcLast.had => ~pcLast.opened /\ pcLast.same /\ pcLast.client # 0)
  /\ (pcLast.op = "close" => ~pcLast.hasAfter)
  /\ (pcLast.op = "close" /\ ~pcLast.had => pcLast.same)

\* A close whose client.close() threw, on a key that had a client.
C35_Witness ==
  /\ pcLast.op = "close"
  /\ pcLast.had
  /\ pcLast.threw

\* C36: currentTabId is null or names a target the browser lists.
C36_CurrentTabExists ==
  tCurrentTabId = 0 \/ tCurrentTabId \in IdsOf(tTargets)

\* C37: the tool-visibility flag gates the listing only: a call-tool request
\* that names an advanced tool is found in the table and, once connected and
\* with valid arguments, handed to the tool's handler, whether the flag is
\* true or false.
C37_FlagDoesNotGateExecution ==
  [][/\ (call.pc = "idle" /\ call' # call /\ call'.tool \in advancedTools)
          => (call'.pc = "ec_start" /\ call'.result = "none")
     /\ (call.pc = "validate" /\ call.tool \in advancedTools /\ call' # call
          /\ call'.result # "invalid_args" /\ serverUp')
          => call'.pc = "handler"]_vars

\* An advanced tool at its handler while the advanced tools are hidden.
C37_Witness ==
  /\ call.tool \in advancedTools
  /\ call.pc = "handler"
  /\ ~advancedToolsEnabled

\* C38: simulate_user_journey sends the steps in list order; with
\* stopOnError it sends no step after the first one that failed, without it
\* it sends every step; and results holds one entry for each step sent, in
\* that order.
C38_JourneyInOrderAndStops ==
  /\ \A n \in 1..Len(jExecuted) : jExecuted[n] = n
  /\ Len(jResults) = Len(jExecuted)
  /\ \A n \in 1..Len(jResults) :
       jResults[n].step = jExecuted[n] /\ jResults[n].action = jArgs.steps[n]
  /\ jArgs.stopOnError =>
       \A n \in 1..Len(jResults) : n < Len(jResults) => jResults[n].success
  /\ (jPc = "returned" /\ Len(jExecuted) < Len(jArgs.steps)) =>
       \/ jExecuted = <<>>
       \/ (jArgs.stopOnError /\ ~jResults[Len(jResults)].success)

\* The call returned after a failed step that was not the last one, with
\* stopOnError set.
C38_Witness ==
  /\ jPc = "returned"
  /\ jArgs.stopOnError
  /\ Len(jExecuted) = 2
  /\ Len(jArgs.steps) = 3
  /\ ~jResults[2].success

\* C39: with restoreOriginal set, test_with_different_cookies leaves the
\* browser with the cookies it had when the call arrived, whether the call
\* succeeded or a setCookie or the navigation failed on the way.
C39_CookiesRestoredOnEveryExit ==
  (tcPc = "returned" /\ tcArgs.restoreOriginal) => tcJar = tcBefore

\* C40: no load event is lost between a navigation and the wait for it: in
\* browser_action navigate and reload and in the navigate steps of the smart
\* workflows the wait is registered before the command that starts the load
\* is sent, so no event of that load goes by unseen.
C40_NoLoadEventLost ==
  /\ leTriggered => leSubscribed
  /\ leEvent # "lost"

====
